---- MODULE Spec2Model ----
(***************************************************************************)
(* COT_v1: the pipeline orchestrator (scripts/run_pipeline.py and the      *)
(* dashboard's "Run compute" button), the compute run                      *)
(* (src/compute/run_compute.py) and the table builders it composes         *)
(* (build_positions, build_changes, build_flows_weekly, build_extremes,    *)
(* build_moves_weekly, build_wide_metrics and its derived label columns),  *)
(* the market radar (src/compute/build_market_radar.py), the markets       *)
(* synchronisation (src/common/markets_sync.py) and the dashboard's        *)
(* accounts and sessions (src/app/auth.py).                                *)
(*                                                                         *)
(* Numbers are integers: COT position counts are whole contracts, on which *)
(* float64 addition, subtraction and abs are exact.  A share (a quotient)  *)
(* is kept as an exact fraction num/den.                                   *)
(***************************************************************************)
EXTENDS Integers, Sequences, FiniteSets, TLC

VARIABLES
    \* ---- scripts/run_pipeline.py and the dashboard button ----
    lockFile,     \* data/compute/.pipeline.lock: NoLock, or the pid written in it
    pc,           \* per invocation: where it is in main() / in the button handler
    kind,         \* per invocation: "cli" (run_pipeline.py) or "dash" (Run compute button)
    stepIdx,      \* per invocation: index in `steps` of the step being run
    rc,           \* per invocation: the value main() returned (NoRc while running)
    acquired,     \* per invocation: whether _pipeline_lock created the lock file
    ran,          \* per invocation: the steps whose subprocess it has started, in order
    exits,        \* per invocation: the return codes of the subprocesses that exited, in order
    \* ---- src/compute/run_compute.py ----
    cpc,          \* where the compute run is in main()
    runId,        \* number of the compute run in progress (0: none started yet)
    files,        \* for every output file, the run that wrote it (0: an earlier run)
    canonical,    \* the canonical table
    validationErrors, \* whether src.compute.validations reported an error for this run
    \* ---- the table builders, called as functions ----
    stage,        \* which builder's input is in hand
    positions,    \* Positions table
    changes,      \* Changes table
    flows,        \* Flows table
    joinIn,       \* the arguments of build_wide_metrics
    wide,         \* what build_wide_metrics did: raised, or the table it returned
    extremes,     \* Extremes table
    moves,        \* Moves table
    weeks,        \* a row of the joined wide frame with its rolling statistics
    labels,       \* the derived columns of that row
    \* ---- the latest-market views, called as functions ----
    radarIn,      \* the metrics table handed to build_market_radar_latest
    radar,        \* the table it returned
    \* ---- src/common/markets_sync.py ----
    contractsMeta, \* configs/contracts_meta.yaml: None (no file) or its contracts list
    marketsYaml,  \* configs/markets.yaml: None (no file) or its source block and markets list
    syncs,        \* how many times sync_markets_from_contracts_meta has been called
    \* ---- src/app/auth.py ----
    adminEmail,   \* COT_ADMIN_EMAIL, normalized ("" when not set)
    users,        \* the users table
    sessions,     \* the sessions table
    browser,      \* per browser session: st.session_state, the query parameter, st.user
    authResult    \* the last call: which, by whom, with what, and what it returned

vars == <<lockFile, pc, kind, stepIdx, rc, acquired, ran, exits,
          cpc, runId, files, canonical, validationErrors,
          stage, positions, changes, flows, joinIn, wide,
          extremes, moves, weeks, labels,
          radarIn, radar, contractsMeta, marketsYaml, syncs,
          adminEmail, users, sessions, browser, authResult>>

pipelineVars == <<lockFile, pc, kind, stepIdx, rc, acquired, ran, exits>>
computeVars  == <<cpc, runId, files, validationErrors>>
builderVars  == <<stage, positions, changes, flows, joinIn, wide,
                  extremes, moves, weeks, labels>>
derivedVars  == <<extremes, moves, weeks, labels>>
syncVars     == <<contractsMeta, marketsYaml, syncs>>
authVars     == <<adminEmail, users, sessions, browser, authResult>>
appVars      == <<radarIn, radar, syncVars, authVars>>


None == [kind |-> "none"]

(***************************************************************************)
(* Cells of a table.  A float64 cell is a number or NaN; a raw cell of the *)
(* canonical table may also be text.                                       *)
(***************************************************************************)
Num(x)    == [kind |-> "num", v |-> x]
NaN       == [kind |-> "nan", v |-> 0]
Text      == [kind |-> "str", v |-> 0]      \* text that is no number, e.g. "n/a"
NumStr(x) == [kind |-> "numstr", v |-> x]   \* text that spells the number x

IsNum(c) == c.kind = "num"
IsNaN(c) == c.kind = "nan"

\* pd.to_numeric(s, errors="coerce").astype("float64")
ToNumeric(c) ==
    CASE c.kind = "num"    -> c
      [] c.kind = "numstr" -> Num(c.v)
      [] OTHER             -> NaN

\* Series.fillna(value)
FillNa(c, x) == IF IsNaN(c) THEN x ELSE c

AbsInt(x) == IF x < 0 THEN -x ELSE x
MaxInt(x, y) == IF x >= y THEN x ELSE y

\* float64 arithmetic: NaN in, NaN out
Add(a, b) == IF IsNum(a) /\ IsNum(b) THEN Num(a.v + b.v) ELSE NaN
Sub(a, b) == IF IsNum(a) /\ IsNum(b) THEN Num(a.v - b.v) ELSE NaN
Abs(a)    == IF IsNum(a) THEN Num(AbsInt(a.v)) ELSE NaN
\* np.maximum(a, b)
Maximum(a, b) == IF IsNum(a) /\ IsNum(b) THEN Num(MaxInt(a.v, b.v)) ELSE NaN

(***************************************************************************)
(* Keys and row order.                                                     *)
(***************************************************************************)
MaxDate == 2
MaxRows == 3

Markets == <<"EUR", "GOLD">>
MarketSet == {Markets[i] : i \in 1..Len(Markets)}
Dates == 1..MaxDate
Groups == <<"nc", "comm", "nr">>
GroupSet == {Groups[i] : i \in 1..Len(Groups)}
Fields == <<"long", "short", "total", "net">>
FieldSet == {Fields[i] : i \in 1..Len(Fields)}

MarketOrd(m) == CHOOSE i \in 1..Len(Markets) : Markets[i] = m

\* order of sort_values(["market_key", "report_date"])
KeyLess(a, b) ==
    \/ MarketOrd(a.market_key) < MarketOrd(b.market_key)
    \/ /\ a.market_key = b.market_key
       /\ a.report_date < b.report_date

\* df.sort_values(["market_key", "report_date"]).reset_index(drop=True); stable:
\* a row moves behind the rows with a smaller key and the earlier rows with an
\* equal key
SortValues(s) ==
    LET n == Len(s)
        place == <<>> \o [i \in 1..n |->
                    Cardinality({j \in 1..n :
                        \/ KeyLess(s[j], s[i])
                        \/ (~KeyLess(s[i], s[j]) /\ j <= i)})]
    IN  <<>> \o [k \in 1..n |-> s[CHOOSE i \in 1..n : place[i] = k]]

KeyOf(row) == [market_key |-> row.market_key, report_date |-> row.report_date]

(***************************************************************************)
(* Tables.  A table is its set of column names (the join keys market_key   *)
(* and report_date excluded) and its rows in order; a row carries its key  *)
(* and a cell for every column.                                            *)
(***************************************************************************)
Table(cols, rows) == [cols |-> cols, rows |-> rows]
Row(m, d, c) == [market_key |-> m, report_date |-> d, c |-> c]

Col(g, f) == g \o "_" \o f

Rng(s) == {s[i] : i \in 1..Len(s)}

\* df.duplicated(subset=join_keys).sum(): rows whose key occurred on an earlier row
Duplicated(rows) ==
    Cardinality({i \in 1..Len(rows) :
                    \E j \in 1..(i - 1) : KeyOf(rows[j]) = KeyOf(rows[i])})

(***************************************************************************)
(* build_positions                                                         *)
(***************************************************************************)
\* pd.to_numeric(df[col], errors="coerce").astype("float64") without the fillna
CoerceCountNoFill(c) == ToNumeric(c)

\* pd.to_numeric(df[col], errors="coerce").astype("float64").fillna(0.0)
CoerceCount(c) == FillNa(ToNumeric(c), Num(0))

\* the four columns of one group
GroupPositions(g, long, short) ==
    (Col(g, "long") :> long) @@ (Col(g, "short") :> short)
      @@ (Col(g, "total") :> Add(long, short))
      @@ (Col(g, "net") :> Sub(long, short))

PositionCols == {Col(g, f) : g \in GroupSet, f \in FieldSet}

PositionsRow(cols, r) ==
    Row(r.market_key, r.report_date,
        GroupPositions("nc", CoerceCount(r.c["nc_long"]), CoerceCount(r.c["nc_short"]))
        @@ GroupPositions("comm", CoerceCount(r.c["comm_long"]), CoerceCount(r.c["comm_short"]))
        @@ (IF {"nr_long", "nr_short"} \subseteq cols
            THEN GroupPositions("nr", CoerceCount(r.c["nr_long"]), CoerceCount(r.c["nr_short"]))
            ELSE GroupPositions("nr", Num(0), Num(0))))

build_positions(canon) ==
    LET df == SortValues(canon.rows)
    IN  Table(PositionCols, [i \in 1..Len(df) |-> PositionsRow(canon.cols, df[i])])

(***************************************************************************)
(* build_changes                                                           *)
(***************************************************************************)
ChgCol(col) == col \o "_chg_1w"

\* the row before row i in the frame, whatever its market
PrevRow(df, i) == i - 1

\* df.groupby("market_key"): the preceding row of row i's own market (0: none)
PrevInGroup(df, i) ==
    LET before == {j \in 1..(i - 1) : df[j].market_key = df[i].market_key}
    IN  IF before = {} THEN 0 ELSE CHOOSE j \in before : \A k \in before : k <= j

\* x.diff(1) within the group, then pd.to_numeric(...).astype("float64")
Diff1(df, i, col) ==
    LET j == PrevInGroup(df, i)
    IN  IF j = 0 THEN NaN ELSE ToNumeric(Sub(df[i].c[col], df[j].c[col]))

\* the position column a change column is the difference of (slip: net from total)
ChgSourceSlip(g, f) == Col(g, IF f = "net" THEN "total" ELSE f)

ChgSource(g, f) == Col(g, f)

\* groups whose long and short columns exist
ChangeGroups(cols) == {g \in GroupSet : {Col(g, "long"), Col(g, "short")} \subseteq cols}

ChangeCols(cols) == {ChgCol(Col(g, f)) : g \in ChangeGroups(cols), f \in FieldSet}

ChangesRow(cols, df, i) ==
    Row(df[i].market_key, df[i].report_date,
        [col \in ChangeCols(cols) |->
            LET gf == CHOOSE p \in ChangeGroups(cols) \X FieldSet : ChgCol(Col(p[1], p[2])) = col
            IN  Diff1(df, i, ChgSource(gf[1], gf[2]))])

\* the frame build_changes works on, left in the order given
UnsortedFrame(rows) == rows

\* positions.sort_values(["market_key", "report_date"]).reset_index(drop=True)
ChangesFrame(rows) == SortValues(rows)

build_changes(pos) ==
    LET df == ChangesFrame(pos.rows)
    IN  Table(ChangeCols(pos.cols), [i \in 1..Len(df) |-> ChangesRow(pos.cols, df, i)])

(***************************************************************************)
(* build_flows_weekly                                                      *)
(***************************************************************************)
\* a quotient of two whole numbers, kept exact
Frac(n, d) == [kind |-> "num", num |-> n, den |-> d]
FracNaN    == [kind |-> "nan", num |-> 0, den |-> 1]

\* gross_chg > eps, eps = 1e-9 (gross is a whole number)
AboveEps(gross) == IsNum(gross) /\ gross.v > 0

\* pd.Series(np.nan).mask(gross == 0, 0.0).mask(gross > eps, part / gross)
ShareOf(part, gross) ==
    IF AboveEps(gross)
    THEN (IF IsNum(part) THEN Frac(part.v, gross.v) ELSE FracNaN)
    ELSE IF IsNum(gross) /\ gross.v = 0 THEN Frac(0, 1)
    ELSE FracNaN

\* gross taken as |dL + dS| (slip)
GrossOfSum(delta_long, delta_short) == Abs(Add(delta_long, delta_short))

\* gross_chg = |dL| + |dS|
GrossChg(delta_long, delta_short) == Add(Abs(delta_long), Abs(delta_short))

\* rotation_magnitude = np.maximum(gross_chg - net_abs_chg, 0.0)
RotationMagnitude(gross_chg, net_abs_chg) == Maximum(Sub(gross_chg, net_abs_chg), Num(0))

FlowSuffixes == {"gross_chg_1w", "net_abs_chg_1w", "rotation_1w", "rotation_share_1w",
                 "net_share_1w", "total_chg_1w_calc", "net_chg_1w_calc"}

FlowCols == {Col(g, x) : g \in GroupSet, x \in FlowSuffixes}

\* the seven flow columns of one group on one row of the changes frame
GroupFlows(cols, r, g) ==
    LET long_chg_col  == Col(g, "long_chg_1w")
        short_chg_col == Col(g, "short_chg_1w")
        net_chg_col   == Col(g, "net_chg_1w")
        has_long  == long_chg_col \in cols
        has_short == short_chg_col \in cols
        has_net   == net_chg_col \in cols
    IN  IF ~(has_long /\ has_short)
        THEN (Col(g, "gross_chg_1w") :> NaN) @@ (Col(g, "net_abs_chg_1w") :> NaN)
               @@ (Col(g, "rotation_1w") :> NaN) @@ (Col(g, "rotation_share_1w") :> FracNaN)
               @@ (Col(g, "net_share_1w") :> FracNaN) @@ (Col(g, "total_chg_1w_calc") :> NaN)
               @@ (Col(g, "net_chg_1w_calc") :> NaN)
        ELSE
          LET delta_long  == ToNumeric(r.c[long_chg_col])
              delta_short == ToNumeric(r.c[short_chg_col])
              delta_net_actual ==
                  IF has_net
                  THEN FillNa(ToNumeric(r.c[net_chg_col]), Sub(delta_long, delta_short))
                  ELSE Sub(delta_long, delta_short)
              delta_total    == Add(delta_long, delta_short)
              delta_net_calc == Sub(delta_long, delta_short)
              gross_chg      == GrossChg(delta_long, delta_short)
              net_abs_chg    == Abs(delta_net_actual)
              rotation_magnitude == RotationMagnitude(gross_chg, net_abs_chg)
          IN  (Col(g, "total_chg_1w_calc") :> delta_total)
                @@ (Col(g, "net_chg_1w_calc") :> delta_net_calc)
                @@ (Col(g, "gross_chg_1w") :> gross_chg)
                @@ (Col(g, "net_abs_chg_1w") :> net_abs_chg)
                @@ (Col(g, "rotation_1w") :> rotation_magnitude)
                @@ (Col(g, "rotation_share_1w") :> ShareOf(rotation_magnitude, gross_chg))
                @@ (Col(g, "net_share_1w") :> ShareOf(net_abs_chg, gross_chg))

FlowsRow(cols, r) ==
    Row(r.market_key, r.report_date,
        GroupFlows(cols, r, "nc") @@ GroupFlows(cols, r, "comm") @@ GroupFlows(cols, r, "nr"))

build_flows_weekly(changes_df) ==
    LET df == SortValues(changes_df.rows)
    IN  Table(FlowCols, [i \in 1..Len(df) |-> FlowsRow(changes_df.cols, df[i])])

(***************************************************************************)
(* build_wide_metrics: key validation, the 1:1 joins and the open-interest *)
(* merge.  The derived analytics that follow assign columns and re-sort;   *)
(* they neither add nor drop a row.                                        *)
(***************************************************************************)
\* the six semantic tables in the order the function walks them
SemanticTables(in) ==
    <<in.positions, in.changes, in.flows, in.rolling, in.extremes, in.moves>>

\* the collision check left out
NoCollisions(tables) == {}

\* column names (join keys aside) met in more than one table
Collisions(tables) ==
    {col \in UNION {tables[i].cols : i \in 1..Len(tables)} :
        \E i, j \in 1..Len(tables) : i < j /\ col \in tables[i].cols /\ col \in tables[j].cols}

NaNCells(cols) == [col \in cols |-> NaN]

\* the rows one left row yields: one per matching right row, in the right's order
RECURSIVE MatchRows(_, _, _)
MatchRows(l, rrows, k) ==
    IF k > Len(rrows) THEN <<>>
    ELSE (IF KeyOf(rrows[k]) = KeyOf(l)
          THEN <<Row(l.market_key, l.report_date, l.c @@ rrows[k].c)>>
          ELSE <<>>) \o MatchRows(l, rrows, k + 1)

RECURSIVE MergeRows(_, _, _, _)
MergeRows(lrows, right, i, keepUnmatched) ==
    IF i > Len(lrows) THEN <<>>
    ELSE LET l == lrows[i]
             m == MatchRows(l, right.rows, 1)
         IN  (IF m = <<>>
              THEN (IF keepUnmatched
                    THEN <<Row(l.market_key, l.report_date, l.c @@ NaNCells(right.cols))>>
                    ELSE <<>>)
              ELSE m) \o MergeRows(lrows, right, i + 1, keepUnmatched)

\* wide.merge(right, on=join_keys, how="inner")
InnerMerge(left, right) ==
    Table(left.cols \cup right.cols, MergeRows(left.rows, right, 1, FALSE))

\* wide.merge(right, on=join_keys, how="left")
LeftMerge(left, right) ==
    Table(left.cols \cup right.cols, MergeRows(left.rows, right, 1, TRUE))

\* validate="1:1": the merge keys are unique in both frames, else MergeError
ValidOneToOne(left, right) == Duplicated(left.rows) = 0 /\ Duplicated(right.rows) = 0

\* canonical.groupby(join_keys)["open_interest_all"].first().reset_index(),
\* columns renamed: one row per key, in key order, the first non-null value
CanonicalOi(canon) ==
    LET firstOf(k) ==
            LET idx == {i \in 1..Len(canon.rows) :
                            KeyOf(canon.rows[i]) = k /\ ~IsNaN(canon.rows[i].c["open_interest_all"])}
            IN  IF idx = {} THEN NaN
                ELSE canon.rows[CHOOSE i \in idx : \A j \in idx : i <= j].c["open_interest_all"]
        firstIdx == {i \in 1..Len(canon.rows) :
                        \A j \in 1..(i - 1) : KeyOf(canon.rows[j]) # KeyOf(canon.rows[i])}
        uniq == SortValues([n \in 1..Cardinality(firstIdx) |->
                    canon.rows[CHOOSE i \in firstIdx :
                        Cardinality({j \in firstIdx : j < i}) = n - 1]])
    IN  Table({"open_interest"},
              [n \in 1..Len(uniq) |->
                  Row(uniq[n].market_key, uniq[n].report_date,
                      [col \in {"open_interest"} |-> firstOf(KeyOf(uniq[n]))])])

Raised(at, joins) ==
    [status |-> "raised", at |-> at, joins |-> joins, cols |-> {}, rows |-> <<>>]
Returned(t, joins) ==
    [status |-> "returned", at |-> "", joins |-> joins, cols |-> t.cols, rows |-> t.rows]

\* the five left joins onto positions, in order; stops at the first MergeError
RECURSIVE JoinFrom(_, _, _)
JoinFrom(acc, tables, k) ==
    IF k > Len(tables) THEN [ok |-> TRUE, table |-> acc, joins |-> k - 2]
    ELSE IF ~ValidOneToOne(acc, tables[k]) THEN [ok |-> FALSE, table |-> acc, joins |-> k - 2]
    ELSE JoinFrom(LeftMerge(acc, tables[k]), tables, k + 1)

build_wide_metrics(in) ==
    LET tables == SemanticTables(in)
    IN  IF \E i \in 1..Len(tables) : Duplicated(tables[i].rows) > 0
        THEN Raised("duplicate keys", 0)
        ELSE IF Collisions(tables) # {}
        THEN Raised("column collisions", 0)
        ELSE
          LET j == JoinFrom(tables[1], tables, 2)
          IN  IF ~j.ok THEN Raised("MergeError", j.joins)
              ELSE IF Len(j.table.rows) # Len(in.positions.rows)
              THEN Raised("row count", j.joins)
              ELSE IF Duplicated(j.table.rows) > 0
              THEN Raised("duplicates after join", j.joins)
              ELSE
                LET oi == CanonicalOi(in.canonical)
                IN  IF ~ValidOneToOne(j.table, oi) THEN Raised("MergeError", j.joins)
                    ELSE
                      LET w == LeftMerge(j.table, oi)
                          sorted == Table(w.cols, SortValues(w.rows))
                      IN  IF Duplicated(sorted.rows) > 0
                          THEN Raised("final duplicates", j.joins + 1)
                          ELSE Returned(sorted, j.joins + 1)

(***************************************************************************)
(* Inputs of the builders.                                                 *)
(***************************************************************************)
MaxJoinRows == 2
MaxCanonRows == 2

KeySet == {[market_key |-> m, report_date |-> d] : m \in MarketSet, d \in Dates}

\* key sequences of length n: any, and those without a repeated key
KeySeqs(n) == [1..n -> KeySet]
DistinctKeySeqs(n) == {s \in KeySeqs(n) : \A i, j \in 1..n : i # j => s[i] # s[j]}

CanonCols == {"nc_long", "nc_short", "comm_long", "comm_short", "nr_long", "nr_short",
              "open_interest_all"}

CanonCells(ncl, ncs, cl, cs, nl, ns, oi) ==
    [nc_long |-> ncl, nc_short |-> ncs, comm_long |-> cl, comm_short |-> cs,
     nr_long |-> nl, nr_short |-> ns, open_interest_all |-> oi]

\* the raw rows tried: ordinary counts, funds equal to commercials, all zero,
\* missing and textual cells, negative counts
CanonRowVals ==
    { CanonCells(Num(3), Num(1), Num(1), Num(3), Num(0), Num(0), Num(10)),
      CanonCells(Num(13), Num(5), Num(2), Num(0), Num(1), Num(1), Num(12)),
      CanonCells(Num(2), Num(2), Num(2), Num(2), Num(1), Num(0), Num(10)),
      CanonCells(Num(0), Num(0), Num(0), Num(0), Num(0), Num(0), NaN),
      CanonCells(NaN, Text, NumStr(2), NaN, Text, NumStr(4), Num(0)),
      CanonCells(Num(-1), Num(0), Num(0), Num(-2), Num(-3), Num(-1), Num(-5)) }

\* the keys of the small tables: two weeks of a market and a week of another
SmallKeySet == {[market_key |-> "EUR", report_date |-> 1],
                [market_key |-> "EUR", report_date |-> 2],
                [market_key |-> "GOLD", report_date |-> 1]}

\* canonical tables as run_compute hands them over: no repeated key, rows in
\* any order, the nr columns present or not
CanonTablesOfLen(n) ==
    {Table(cols, [i \in 1..n |->
                Row(ks[i].market_key, ks[i].report_date, [col \in cols |-> vs[i][col]])]) :
        ks \in {s \in [1..n -> SmallKeySet] : \A i, j \in 1..n : i # j => s[i] # s[j]},
        vs \in [1..n -> CanonRowVals],
        cols \in {CanonCols, CanonCols \ {"nr_long", "nr_short"}}}

CanonTables == UNION {CanonTablesOfLen(n) : n \in 1..MaxCanonRows}

\* Positions tables as build_positions fills them (whole counts, total and
\* net derived), no repeated key, with their rows in any order
PositionVals ==
    { GroupPositions("nc", Num(3), Num(1)) @@ GroupPositions("comm", Num(1), Num(3))
        @@ GroupPositions("nr", Num(0), Num(0)),
      GroupPositions("nc", Num(13), Num(5)) @@ GroupPositions("comm", Num(2), Num(0))
        @@ GroupPositions("nr", Num(1), Num(1)) }

PositionsInputsOfLen(n) ==
    {Table(PositionCols, [i \in 1..n |-> Row(ks[i].market_key, ks[i].report_date, vs[i])]) :
        ks \in DistinctKeySeqs(n), vs \in [1..n -> PositionVals]}

PositionsInputs == UNION {PositionsInputsOfLen(n) : n \in 1..MaxRows}

\* Changes tables of one row, carrying one group's columns, with or without
\* the group's net change column, whose cells need not agree with each other
ChgVals == {NaN, Num(-2), Num(0), Num(1), Num(3)}

ChangesInputs ==
    {Table({Col(g, "long_chg_1w"), Col(g, "short_chg_1w")} \cup net.cols,
           <<Row("EUR", 1,
                 (Col(g, "long_chg_1w") :> l) @@ (Col(g, "short_chg_1w") :> sh) @@ net.cells)>>) :
        g \in GroupSet, l \in ChgVals, sh \in ChgVals,
        net \in {[cols |-> {}, cells |-> <<>>]}
                  \cup {[cols |-> {Col(g2, "net_chg_1w")},
                         cells |-> (Col(g2, "net_chg_1w") :> n)] :
                            g2 \in GroupSet, n \in ChgVals}}

\* one column of each semantic table, in the order of SemanticTables
JoinColNames == <<"nc_long", "nc_long_chg_1w", "nc_gross_chg_1w", "nc_long_ma_13w",
                  "nc_long_min_all", "nc_long_move_pct_all">>

JoinTable(keys, cols) ==
    Table(cols, [i \in 1..Len(keys) |->
                    Row(keys[i].market_key, keys[i].report_date, [col \in cols |-> Num(i)])])

JoinArgs(t) ==
    [positions |-> t[1], changes |-> t[2], flows |-> t[3], rolling |-> t[4],
     extremes |-> t[5], moves |-> t[6], canonical |-> t[7]]

\* Arguments of build_wide_metrics.  positions has any keys, repeated ones
\* included; the other tables have positions' keys in sorted order, as the
\* builders return them, except that
\*   - one of them (odd) has keys of its own (oddKeys), or
\*   - one semantic table (b) also carries a column of an earlier one (a).
JoinInputsWith(p, odd, oddKeys, a, b) ==
    JoinArgs([k \in 1..7 |->
        LET keys == IF k = 1 THEN p ELSE IF k = odd THEN oddKeys ELSE SortValues(p)
            cols == IF k = 7 THEN {"open_interest_all"}
                    ELSE {JoinColNames[k]} \cup (IF k = b THEN {JoinColNames[a]} ELSE {})
        IN  JoinTable(keys, cols)])

JoinKeySeqs == UNION {[1..n -> SmallKeySet] : n \in 0..MaxJoinRows}

JoinInputs ==
    {JoinInputsWith(p, odd, oddKeys, 0, 0) :
        p \in JoinKeySeqs \ {<<>>}, odd \in 2..7, oddKeys \in JoinKeySeqs}
    \cup
    {JoinInputsWith(p, 0, <<>>, ab[1], ab[2]) :
        p \in JoinKeySeqs \ {<<>>}, ab \in {x \in (1..6) \X (1..6) : x[1] < x[2]}}

(***************************************************************************)
(* Per-market summaries shared by build_extremes and build_moves_weekly.   *)
(* The frame df is sorted by (market_key, report_date), so the rows of a   *)
(* market are consecutive and the trailing window of row i is the rows of  *)
(* its market among the last `window` rows up to and including i.          *)
(***************************************************************************)
Window5y == 260
MinPeriods5y == 52

MinOf(S) == CHOOSE x \in S : \A y \in S : x <= y
MaxOf(S) == CHOOSE x \in S : \A y \in S : x >= y

\* every row of the frame, whatever its market (slip)
AllRows(df, i) == 1..Len(df)

\* df.groupby("market_key"): the rows of row i's market
MarketRows(df, i) == {j \in 1..Len(df) : df[j].market_key = df[i].market_key}

\* the last `window` rows before row i, row i left out (slip)
RollingRowsBefore(df, i, window) ==
    {j \in MaxInt(1, i - window)..(i - 1) : df[j].market_key = df[i].market_key}

\* x.rolling(window=window): the rows of the window that ends at row i
RollingRows(df, i, window) ==
    {j \in MaxInt(1, i - window + 1)..i : df[j].market_key = df[i].market_key}

\* the frame's last rows up to i, whatever their market (slip)
WindowRowsAnyMarket(df, i) == MaxInt(1, i - Window5y + 1)..i

\* the rows of the 260-week window of row i
WindowRows(df, i) == RollingRows(df, i, Window5y)

\* the values present in column col on rows js
Present(df, js, col) == {df[j].c[col].v : j \in {k \in js : IsNum(df[k].c[col])}}

\* min_periods=52: the window holds at least 52 observations
Matured(df, js, col) ==
    Cardinality({k \in js : IsNum(df[k].c[col])}) >= MinPeriods5y

\* transform("min") / transform("max"): NaN values skipped, NaN when none is left
MinCell(vs) == IF vs = {} THEN NaN ELSE Num(MinOf(vs))
MaxCell(vs) == IF vs = {} THEN NaN ELSE Num(MaxOf(vs))

\* rolling(window=260, min_periods=52).min() / .max()
RollingMin(df, js, col) ==
    IF Matured(df, js, col) THEN MinCell(Present(df, js, col)) ELSE NaN
RollingMax(df, js, col) ==
    IF Matured(df, js, col) THEN MaxCell(Present(df, js, col)) ELSE NaN

(***************************************************************************)
(* build_extremes                                                          *)
(***************************************************************************)
Half == Frac(1, 2)

\* (series - min) / diff where diff > 0
PosInRange(s, lo, hi) ==
    IF IsNum(s) THEN Frac(s.v - lo.v, hi.v - lo.v) ELSE FracNaN

\* np.where(diff_all > 0, (series - min_all) / diff_all,
\*          np.where(series.notna(), 0.5, np.nan))
PosAll(s, lo, hi) ==
    IF IsNum(lo) /\ IsNum(hi) /\ hi.v - lo.v > 0 THEN PosInRange(s, lo, hi)
    ELSE IF IsNum(s) THEN Half
    ELSE FracNaN

\* np.where((diff_5y > 0) & min_5y.notna() & max_5y.notna(), (series - min_5y) / diff_5y,
\*          np.where((diff_5y == 0) & min_5y.notna() & max_5y.notna() & series.notna(),
\*                   0.5, np.nan))
Pos5y(s, lo, hi) ==
    IF IsNum(lo) /\ IsNum(hi) /\ hi.v - lo.v > 0 THEN PosInRange(s, lo, hi)
    ELSE IF IsNum(lo) /\ IsNum(hi) /\ hi.v - lo.v = 0 /\ IsNum(s) THEN Half
    ELSE FracNaN

ExtremeSuffixes == {"min_all", "max_all", "pos_all", "min_5y", "max_5y", "pos_5y"}

ExtremeCols(cols) == {Col(c, x) : c \in cols \cap PositionCols, x \in ExtremeSuffixes}

\* the six columns of one position column on row i
ColumnExtremes(df, i, col) ==
    LET series == ToNumeric(df[i].c[col])
        all     == Present(df, MarketRows(df, i), col)
        window  == WindowRows(df, i)
        min_all == MinCell(all)
        max_all == MaxCell(all)
        min_5y  == RollingMin(df, window, col)
        max_5y  == RollingMax(df, window, col)
    IN  (Col(col, "min_all") :> min_all) @@ (Col(col, "max_all") :> max_all)
          @@ (Col(col, "pos_all") :> PosAll(series, min_all, max_all))
          @@ (Col(col, "min_5y") :> min_5y) @@ (Col(col, "max_5y") :> max_5y)
          @@ (Col(col, "pos_5y") :> Pos5y(series, min_5y, max_5y))

\* for group in groups: for metric in metrics: the columns present in df
RECURSIVE ExtremesCells(_, _, _)
ExtremesCells(df, i, cols) ==
    IF cols = {} THEN <<>>
    ELSE LET col == CHOOSE c \in cols : TRUE
         IN  ColumnExtremes(df, i, col) @@ ExtremesCells(df, i, cols \ {col})

ExtremesRow(cols, df, i) ==
    Row(df[i].market_key, df[i].report_date, ExtremesCells(df, i, cols \cap PositionCols))

build_extremes(pos) ==
    LET df == SortValues(pos.rows)
    IN  Table(ExtremeCols(pos.cols), [i \in 1..Len(df) |-> ExtremesRow(pos.cols, df, i)])

(***************************************************************************)
(* Positions tables with a history long enough for the 260-week window:    *)
(* weekly reports 1..n of a market, one position column, whole-number      *)
(* values as build_positions leaves them (never NaN).                      *)
(***************************************************************************)
MaxWeeks == 261

SeriesShapes == {"flat", "ramp", "peak", "dip"}

\* the value of week w of a series
SeriesValue(shape, w) ==
    CASE shape = "flat" -> 5
      [] shape = "ramp" -> w
      [] shape = "peak" -> IF w = 1 THEN 9 ELSE w % 3
      [] OTHER          -> 0 - (w % 4)

History(m, n, col, shape) ==
    [w \in 1..n |-> Row(m, w, (col :> Num(SeriesValue(shape, w))))]

HistoryLens == {1, MinPeriods5y - 1, MinPeriods5y, MinPeriods5y + 1}

ExtremesInputs ==
    {Table({col}, History("EUR", n, col, shape) \o History("GOLD", n2, col, shape2)) :
        n \in HistoryLens, shape \in SeriesShapes,
        n2 \in {0, MinPeriods5y - 1, MinPeriods5y}, shape2 \in {"flat", "ramp"},
        col \in {"nc_long", "comm_net"}}
    \cup
    {Table({col}, History("GOLD", n2, col, shape2) \o History("EUR", n, col, shape)) :
        n \in {MinPeriods5y - 1, MinPeriods5y}, shape \in {"flat", "dip"},
        n2 \in {MinPeriods5y - 1, MinPeriods5y}, shape2 \in {"ramp"},
        col \in {"nc_long"}}
    \cup
    {Table({"nc_net"}, History("EUR", MaxWeeks, "nc_net", shape)
                         \o History("GOLD", n2, "nc_net", "flat")) :
        shape \in {"peak", "ramp"}, n2 \in {0, MinPeriods5y - 1}}

(***************************************************************************)
(* build_moves_weekly                                                      *)
(***************************************************************************)
\* the rows among js where column col holds a value
Observed(df, js, col) == {k \in js : IsNum(df[k].c[col])}

\* abs_vals.rank(method="min", na_option="keep") on row i: one more than the
\* number of the group's values strictly below it
RankMin(df, js, i, col) ==
    1 + Cardinality({k \in Observed(df, js, col) :
                        AbsInt(df[k].c[col].v) < AbsInt(df[i].c[col].v)})

\* np.sum(valid <= target)
CountAtMost(df, js, i, col) ==
    Cardinality({k \in Observed(df, js, col) :
                    AbsInt(df[k].c[col].v) <= AbsInt(df[i].c[col].v)})

\* calc_percentile, then .where(df[chg_col].notna(), np.nan)
MovePctAll(df, i, col) ==
    LET js == MarketRows(df, i)
        non_null_count == Cardinality(Observed(df, js, col))
    IN  IF non_null_count = 0 \/ ~IsNum(df[i].c[col]) THEN FracNaN
        ELSE Frac(RankMin(df, js, i, col), non_null_count)

\* rolling(window=260, min_periods=52).apply(calc_rolling_percentile, raw=True),
\* then .where(df[chg_col].notna(), np.nan)
MovePct5y(df, i, col) ==
    LET js == WindowRows(df, i)
    IN  IF ~Matured(df, js, col) \/ ~IsNum(df[i].c[col]) THEN FracNaN
        ELSE Frac(CountAtMost(df, js, i, col), Cardinality(Observed(df, js, col)))

\* (group, metric) pairs whose change column exists in df
MoveSources(cols) == {p \in GroupSet \X FieldSet : ChgCol(Col(p[1], p[2])) \in cols}

MoveCols(cols) ==
    {Col(Col(p[1], p[2]), x) : p \in MoveSources(cols), x \in {"move_pct_all", "move_pct_5y"}}

RECURSIVE MovesCells(_, _, _)
MovesCells(df, i, ps) ==
    IF ps = {} THEN <<>>
    ELSE LET p == CHOOSE q \in ps : TRUE
             chg_col == ChgCol(Col(p[1], p[2]))
         IN  (Col(Col(p[1], p[2]), "move_pct_all") :> MovePctAll(df, i, chg_col))
               @@ (Col(Col(p[1], p[2]), "move_pct_5y") :> MovePct5y(df, i, chg_col))
               @@ MovesCells(df, i, ps \ {p})

MovesRow(cols, df, i) ==
    Row(df[i].market_key, df[i].report_date, MovesCells(df, i, MoveSources(cols)))

build_moves_weekly(changes_df) ==
    LET df == SortValues(changes_df.rows)
    IN  Table(MoveCols(changes_df.cols),
              [i \in 1..Len(df) |-> MovesRow(changes_df.cols, df, i)])

(***************************************************************************)
(* Changes tables of one change column: NaN on a market's first report, as *)
(* build_changes leaves it, whole numbers after it.                        *)
(***************************************************************************)
MaxMoveWeeks == 4

MoveVals == {-1, 0, 1, 2}

\* the changes of reports 2..n+1, the first report added in front
ChgHistory(m, col, chgs) ==
    [w \in 1..(Len(chgs) + 1) |->
        Row(m, w, (col :> IF w = 1 THEN NaN ELSE Num(chgs[w - 1])))]

\* a history long enough for the 260-week window to mature
LongChgHistory(m, col, shape) ==
    ChgHistory(m, col, [w \in 1..(MinPeriods5y + 1) |-> SeriesValue(shape, w)])

MovesInputs ==
    {Table({col}, ChgHistory("EUR", col, chgs)
                    \o (IF other THEN ChgHistory("GOLD", col, <<2, 2, 0>>) ELSE <<>>)) :
        chgs \in UNION {[1..n -> MoveVals] : n \in 0..(MaxMoveWeeks - 1)},
        other \in BOOLEAN,
        col \in {"nc_net_chg_1w"}}
    \cup
    {Table({col}, LongChgHistory("EUR", col, shape)) :
        shape \in {"ramp", "dip"}, col \in {"comm_long_chg_1w"}}

(***************************************************************************)
(* build_wide_metrics: the label columns derived after the join.  They are *)
(* row-wise functions of the joined frame's columns, of the rolling        *)
(* statistics (z-scores, the 75% quantile), and of the previous report of  *)
(* the same market (groupby(market_key).shift(1)).  A z-score, a share or  *)
(* a percentile is an exact fraction; a label is a string.                 *)
(***************************************************************************)
\* comparisons of float64 values: False when either side is NaN
FracGe(a, b) == IsNum(a) /\ IsNum(b) /\ a.num * b.den >= b.num * a.den
FracGt(a, b) == IsNum(a) /\ IsNum(b) /\ a.num * b.den > b.num * a.den
FracLe(a, b) == FracGe(b, a)
FracLt(a, b) == FracGt(b, a)
FracAbs(a) == IF IsNum(a) THEN Frac(AbsInt(a.num), a.den) ELSE FracNaN

NumEq(a, b) == IsNum(a) /\ IsNum(b) /\ a.v = b.v
NumGe(a, b) == IsNum(a) /\ IsNum(b) /\ a.v >= b.v
IsZero(a) == IsNum(a) /\ a.v = 0
IsPositive(a) == IsNum(a) /\ a.v > 0
IsNegative(a) == IsNum(a) /\ a.v < 0

\* np.sign(pd.to_numeric(series, errors="coerce"))
Sign(a) ==
    LET s == ToNumeric(a)
    IN  IF IsNum(s) THEN Num(IF s.v > 0 THEN 1 ELSE IF s.v < 0 THEN -1 ELSE 0) ELSE NaN

\* (_sign(a) == -_sign(b)) & (_sign(a) != 0) & (_sign(b) != 0); NaN != 0 is True
\* in numpy, but the equality has already failed on a NaN
OppositeSigns(a, b) ==
    /\ IsNum(Sign(a)) /\ IsNum(Sign(b))
    /\ Sign(a).v = 0 - Sign(b).v
    /\ Sign(a).v # 0 /\ Sign(b).v # 0

\* the flow label without the test of the net change against half the larger leg (slip)
FlowLabelNoThreshold(long_delta, short_delta, net_delta) ==
    IF IsZero(Maximum(Abs(ToNumeric(long_delta)), Abs(ToNumeric(short_delta)))) THEN "N/A"
    ELSE IF OppositeSigns(long_delta, short_delta) /\ ~IsZero(ToNumeric(net_delta))
         THEN "Directional"
    ELSE "Rotational"

\* _flow_label
FlowLabel(long_delta, short_delta, net_delta) ==
    LET long_s  == ToNumeric(long_delta)
        short_s == ToNumeric(short_delta)
        net_s   == ToNumeric(net_delta)
        max_abs == Maximum(Abs(long_s), Abs(short_s))
        dir_condition ==
            /\ NumEq(Sign(long_s), Sub(Num(0), Sign(short_s)))
            /\ IsNum(net_s) /\ IsNum(max_abs) /\ 2 * AbsInt(net_s.v) > max_abs.v
        zero_max == IsZero(max_abs)
        one_zero == IsZero(long_s) # IsZero(short_s)
        net_zero == IsZero(net_s)
    IN  IF zero_max THEN "N/A"
        ELSE IF one_zero \/ net_zero THEN "Rotational"
        ELSE IF dir_condition THEN "Directional"
        ELSE "Rotational"

\* np.where(p75.notna(), np.where(abs_delta >= p75, "Aggressive", "Normal"), "N/A")
Activity(net_delta, p75) ==
    IF IsNum(p75)
    THEN (IF NumGe(Abs(ToNumeric(net_delta)), p75) THEN "Aggressive" ELSE "Normal")
    ELSE "N/A"

\* positioning_funds: np.select over net_z_52w_funds, default "N/A"
PositioningFunds(nc_z) ==
    CASE FracGe(nc_z, Frac(3, 2)) -> "Crowded Long"
      [] FracGe(nc_z, Frac(1, 1)) /\ FracLt(nc_z, Frac(3, 2)) -> "Extended Long"
      [] FracGt(nc_z, Frac(-1, 1)) /\ FracLt(nc_z, Frac(1, 1)) -> "Balanced"
      [] FracLe(nc_z, Frac(-1, 1)) /\ FracGt(nc_z, Frac(-3, 2)) -> "Extended Short"
      [] FracLe(nc_z, Frac(-3, 2)) -> "Crowded Short"
      [] OTHER -> "N/A"

\* base_comm_pos: np.select([z >= 1.5, z <= -1.5, |z| < 1.0], [...], default="Balanced")
BaseCommPos(comm_z) ==
    CASE FracGe(comm_z, Frac(3, 2)) -> "Crowded Long"
      [] FracLe(comm_z, Frac(-3, 2)) -> "Crowded Short"
      [] OTHER -> "Balanced"

\* comm_sign_change: the week's net change against the previous report's net position
CommSignChange(comm_net_delta, prev_comm_net) == OppositeSigns(comm_net_delta, prev_comm_net)

\* comm_unwound
CommUnwound(activity, flow, comm_net_delta, prev_comm_net, prev_comm_z) ==
    /\ activity = "Aggressive"
    /\ flow = "Directional"
    /\ CommSignChange(comm_net_delta, prev_comm_net)
    /\ FracGe(FracAbs(prev_comm_z), Frac(1, 1))

\* the conflict level without the opposite-signs condition (slip)
ConflictLevelAnySigns(act_nc, flow_nc, act_comm, flow_comm, nc_net_delta, comm_net_delta) ==
    LET funds_aggressive == act_nc = "Aggressive" /\ flow_nc = "Directional"
        comm_aggressive  == act_comm = "Aggressive" /\ flow_comm = "Directional"
    IN  IF funds_aggressive /\ comm_aggressive THEN "High"
        ELSE IF funds_aggressive \/ comm_aggressive THEN "Medium"
        ELSE "Low"

\* conflict_level
ConflictLevel(act_nc, flow_nc, act_comm, flow_comm, nc_net_delta, comm_net_delta) ==
    LET funds_aggressive == act_nc = "Aggressive" /\ flow_nc = "Directional"
        comm_aggressive  == act_comm = "Aggressive" /\ flow_comm = "Directional"
        flows_opposite   == OppositeSigns(nc_net_delta, comm_net_delta)
    IN  IF funds_aggressive /\ comm_aggressive /\ flows_opposite THEN "High"
        ELSE IF (funds_aggressive \/ comm_aggressive) /\ flows_opposite THEN "Medium"
        ELSE "Low"

\* np.clip(x, -2, 2)
Clip(x) == IF x < -2 THEN -2 ELSE IF x > 2 THEN 2 ELSE x

\* the signal with the positioning score's sign turned (slip)
TrafficSignalSlip(nc_net_delta, comm_net_delta, nc_z, conflict_level) ==
    Clip((IF IsPositive(comm_net_delta) THEN 1 ELSE 0)
         + (IF IsNegative(nc_net_delta) THEN -1 ELSE 0)
         + (IF FracGe(nc_z, Frac(3, 2)) THEN 1 ELSE 0)
         + (IF FracLe(nc_z, Frac(-3, 2)) THEN -1 ELSE 0)
         + (IF conflict_level = "High" THEN -1 ELSE 0))

\* cot_traffic_signal
TrafficSignal(nc_net_delta, comm_net_delta, nc_z, conflict_level) ==
    LET flow_score == (IF IsPositive(comm_net_delta) THEN 1 ELSE 0)
                      + (IF IsNegative(nc_net_delta) THEN -1 ELSE 0)
        pos_score  == (IF FracGe(nc_z, Frac(3, 2)) THEN -1 ELSE 0)
                      + (IF FracLe(nc_z, Frac(-3, 2)) THEN 1 ELSE 0)
        conflict_penalty == IF conflict_level = "High" THEN -1 ELSE 0
    IN  Clip(flow_score + pos_score + conflict_penalty)

\* the float64 value of a numeric cell
ToFrac(c) == IF IsNum(c) THEN Frac(c.v, 1) ELSE FracNaN

\* open_interest_chg_1w: groupby(market_key)["open_interest"].diff(1)
OiChg1w(open_interest, prev_open_interest) ==
    ToNumeric(Sub(ToNumeric(open_interest), ToNumeric(prev_open_interest)))

\* oi_delta_4w: oi_series - oi_series.groupby(market_key).shift(4)
OiDelta4w(open_interest, open_interest_4w_ago) ==
    Sub(ToNumeric(open_interest), ToNumeric(open_interest_4w_ago))

\* oi_acceleration: oi_chg_1w - oi_delta_4w / 4.0
OiAcceleration(oi_chg_1w, oi_delta_4w) ==
    IF IsNum(oi_chg_1w) /\ IsNum(oi_delta_4w)
    THEN Frac(4 * oi_chg_1w.v - oi_delta_4w.v, 4) ELSE FracNaN

\* small_threshold: 0.05 * (52-week rolling median of |oi_chg_1w|)
SmallThreshold(oi_median_abs_52) ==
    IF IsNum(oi_median_abs_52)
    THEN Frac(oi_median_abs_52.num, 20 * oi_median_abs_52.den) ELSE FracNaN

\* the regime with Rebuild tried before the two expansions (slip)
OiRegimeRebuildFirst(delta_1w, accel, oi_z_52, small_threshold) ==
    LET d == ToFrac(delta_1w)
        zero == Frac(0, 1)
    IN  IF IsNaN(delta_1w) \/ IsNaN(accel) \/ IsNaN(oi_z_52) \/ IsNaN(small_threshold)
        THEN "N/A"
        ELSE IF FracGt(d, zero) /\ FracLe(oi_z_52, Frac(-1, 1)) THEN "Rebuild"
        ELSE IF FracGt(d, zero) /\ FracGt(accel, zero) /\ FracLt(oi_z_52, Frac(3, 2))
             THEN "Expansion_Early"
        ELSE IF FracGt(d, zero) /\ FracGe(accel, zero) /\ FracGe(oi_z_52, Frac(3, 2))
             THEN "Expansion_Late"
        ELSE IF FracLt(d, zero) /\ FracGe(oi_z_52, Frac(3, 2)) THEN "Distribution"
        ELSE IF FracLe(FracAbs(d), small_threshold) /\ FracLt(FracAbs(oi_z_52), Frac(1, 1))
             THEN "Neutral"
        ELSE "Mixed"

\* oi_regime: np.select takes the first condition that holds, default "Mixed";
\* np.where(missing_regime, "N/A", regime_base)
OiRegime(delta_1w, accel, oi_z_52, small_threshold) ==
    LET d == ToFrac(delta_1w)
        zero == Frac(0, 1)
        regime_base ==
            IF FracGt(d, zero) /\ FracGt(accel, zero) /\ FracLt(oi_z_52, Frac(3, 2))
            THEN "Expansion_Early"
            ELSE IF FracGt(d, zero) /\ FracGe(accel, zero) /\ FracGe(oi_z_52, Frac(3, 2))
            THEN "Expansion_Late"
            ELSE IF FracLt(d, zero) /\ FracGe(oi_z_52, Frac(3, 2)) THEN "Distribution"
            ELSE IF FracLe(FracAbs(d), small_threshold)
                    /\ FracLt(FracAbs(oi_z_52), Frac(1, 1))
            THEN "Neutral"
            ELSE IF FracGt(d, zero) /\ FracLe(oi_z_52, Frac(-1, 1)) THEN "Rebuild"
            ELSE "Mixed"
        missing_regime ==
            IsNaN(delta_1w) \/ IsNaN(accel) \/ IsNaN(oi_z_52) \/ IsNaN(small_threshold)
    IN  IF missing_regime THEN "N/A" ELSE regime_base

\* np.select([risk_score <= 1, risk_score == 2, risk_score >= 3], [...])
RiskBucket(score) == IF score <= 1 THEN "Low" ELSE IF score = 2 THEN "Elevated" ELSE "High"

\* str.startswith("Crowded")
StartsWithCrowded(label) == label \in {"Crowded Long", "Crowded Short"}

\* oi_risk_level, computed in the open-interest block from the columns the
\* frame has at that point: wide.get(name) is None for a column not yet added
OiRiskLevel(cols, row, oi_z_52) ==
    LET risk_score ==
            (IF FracGe(oi_z_52, Frac(3, 2)) THEN 1 ELSE 0)
            + (IF FracGe(oi_z_52, Frac(2, 1)) THEN 1 ELSE 0)
            + (IF "positioning_funds" \in cols /\ StartsWithCrowded(row["positioning_funds"])
               THEN 1 ELSE 0)
            + (IF "conflict_level" \in cols /\ row["conflict_level"] = "High" THEN 1 ELSE 0)
    IN  IF IsNaN(oi_z_52) THEN "N/A" ELSE RiskBucket(risk_score)

(***************************************************************************)
(* build_wide_metrics: the traffic-light labels and the consensus of funds *)
(* and commercials.                                                        *)
(***************************************************************************)
\* _activity_label: thresholds 0.30 and 0.70 on the move percentile
ActivityLabel(s) ==
    CASE FracLt(s, Frac(3, 10)) -> "Quiet"
      [] FracGe(s, Frac(3, 10)) /\ FracLe(s, Frac(7, 10)) -> "Active"
      [] FracGt(s, Frac(7, 10)) -> "Aggressive"
      [] OTHER -> "N/A"

\* _flow_quality_label: thresholds 0.40 and 0.60 on the rotation share
FlowQualityLabel(s) ==
    CASE FracLt(s, Frac(4, 10)) -> "Directional"
      [] FracGe(s, Frac(4, 10)) /\ FracLe(s, Frac(6, 10)) -> "Mixed"
      [] FracGt(s, Frac(6, 10)) -> "Rotational"
      [] OTHER -> "N/A"

\* _position_label: thresholds 0.20, 0.70 and 0.90 on the net position's place
PositionLabel(s) ==
    CASE FracLt(s, Frac(2, 10)) -> "Unwound"
      [] FracGe(s, Frac(2, 10)) /\ FracLt(s, Frac(7, 10)) -> "Neutral"
      [] FracGe(s, Frac(7, 10)) /\ FracLe(s, Frac(9, 10)) -> "Crowded"
      [] FracGt(s, Frac(9, 10)) -> "Extreme"
      [] OTHER -> "N/A"

\* _activity_score: label.map({"Quiet": 0, "Active": 1, "Aggressive": 2})
ActivityScore(label) ==
    CASE label = "Quiet" -> Num(0)
      [] label = "Active" -> Num(1)
      [] label = "Aggressive" -> Num(2)
      [] OTHER -> NaN

\* np.nanmax / np.nanmin of two values: the one present, NaN when neither is
NanMax(a, b) ==
    IF IsNum(a) /\ IsNum(b) THEN (IF FracGe(a, b) THEN a ELSE b)
    ELSE IF IsNum(a) THEN a ELSE b
NanMin(a, b) ==
    IF IsNum(a) /\ IsNum(b) THEN (IF FracLe(a, b) THEN a ELSE b)
    ELSE IF IsNum(a) THEN a ELSE b

\* _consensus: (consensus_type, conviction)
Consensus(act_nc, act_comm, flow_nc, flow_comm, net_nc, net_comm, move_nc, move_comm, rot_nc, rot_comm, pos_nc, pos_comm) ==
    LET sign_nc   == Sign(net_nc)
        sign_comm == Sign(net_comm)
        active_nc   == act_nc \in {"Active", "Aggressive"}
        active_comm == act_comm \in {"Active", "Aggressive"}
        directional_nc   == flow_nc = "Directional"
        directional_comm == flow_comm = "Directional"
        same_sign == \/ IsPositive(sign_nc) /\ IsPositive(sign_comm)
                     \/ IsNegative(sign_nc) /\ IsNegative(sign_comm)
        opposite_sign == \/ IsPositive(sign_nc) /\ IsNegative(sign_comm)
                         \/ IsNegative(sign_nc) /\ IsPositive(sign_comm)
        alignment == same_sign /\ active_nc /\ active_comm
                     /\ directional_nc /\ directional_comm
        conflict == opposite_sign /\ active_nc /\ active_comm
                    /\ directional_nc /\ directional_comm
        flow_mismatch == \/ flow_nc = "Directional" /\ flow_comm = "Rotational"
                         \/ flow_nc = "Rotational" /\ flow_comm = "Directional"
        asymmetric ==
            \/ NumGe(Abs(Sub(ActivityScore(act_nc), ActivityScore(act_comm))), Num(1))
            \/ flow_mismatch
        consensus_type == IF alignment THEN "Alignment"
                          ELSE IF conflict THEN "Conflict"
                          ELSE IF asymmetric THEN "Asymmetric"
                          ELSE "Mixed"
        high_conv == /\ FracGt(NanMax(move_nc, move_comm), Frac(7, 10))
                     /\ FracLt(NanMin(rot_nc, rot_comm), Frac(4, 10))
        pos_mismatch == \/ pos_nc \in {"Crowded", "Extreme"} /\ pos_comm = "Unwound"
                        \/ pos_comm \in {"Crowded", "Extreme"} /\ pos_nc = "Unwound"
        medium_conv == consensus_type = "Asymmetric" /\ (flow_mismatch \/ pos_mismatch)
        conviction == IF high_conv THEN "High" ELSE IF medium_conv THEN "Medium" ELSE "Low"
        missing == act_nc = "N/A" \/ act_comm = "N/A" \/ flow_nc = "N/A" \/ flow_comm = "N/A"
    IN  [type |-> IF missing THEN "N/A" ELSE consensus_type,
         conviction |-> IF missing THEN "N/A" ELSE conviction]

(***************************************************************************)
(* The derived columns of one row of the joined frame.  w.cols and w.cur   *)
(* are the columns of the frame after the join and the row's cells;        *)
(* w.prev_comm_net is the market's previous comm_net (NaN on its first     *)
(* report); w.rolling holds the rolling statistics of the row: the three   *)
(* 52-week z-scores, the previous report's commercials z-score, the two    *)
(* 75% quantiles of |net change|, the market's open interest one and four  *)
(* reports earlier and the 52-week median of |open-interest change|.       *)
(***************************************************************************)
DerivedColumns(w) ==
    LET c == w.cur
        r == w.rolling
        nc_net_delta   == ToNumeric(c["nc_net_chg_1w"])
        comm_net_delta == ToNumeric(c["comm_net_chg_1w"])
        oi_chg_1w      == OiChg1w(c["open_interest"], r.prev_open_interest)
        oi_acceleration ==
            OiAcceleration(oi_chg_1w, OiDelta4w(c["open_interest"], r.open_interest_4w_ago))
        oi_regime      == OiRegime(oi_chg_1w, oi_acceleration, r.oi_z_52w,
                                   SmallThreshold(r.oi_median_abs_52))
        oi_risk_level  == OiRiskLevel(w.cols, c, r.oi_z_52w)
        activity_funds == Activity(nc_net_delta, r.nc_p75)
        activity_commercials == Activity(comm_net_delta, r.comm_p75)
        flow_funds == FlowLabel(c["nc_long_chg_1w"], c["nc_short_chg_1w"], nc_net_delta)
        flow_commercials ==
            FlowLabel(c["comm_long_chg_1w"], c["comm_short_chg_1w"], comm_net_delta)
        positioning_funds == PositioningFunds(r.net_z_52w_funds)
        positioning_commercials ==
            IF CommUnwound(activity_commercials, flow_commercials, comm_net_delta,
                           w.prev_comm_net, r.prev_net_z_52w_commercials)
            THEN "Unwound" ELSE BaseCommPos(r.net_z_52w_commercials)
        conflict_level == ConflictLevel(activity_funds, flow_funds, activity_commercials,
                                        flow_commercials, nc_net_delta, comm_net_delta)
        nc_tl_activity_all   == ActivityLabel(c["nc_net_move_pct_all"])
        comm_tl_activity_all == ActivityLabel(c["comm_net_move_pct_all"])
        nc_tl_activity_5y    == ActivityLabel(c["nc_net_move_pct_5y"])
        comm_tl_activity_5y  == ActivityLabel(c["comm_net_move_pct_5y"])
        nc_tl_flow_quality   == FlowQualityLabel(c["nc_rotation_share_1w"])
        comm_tl_flow_quality == FlowQualityLabel(c["comm_rotation_share_1w"])
        nc_tl_position_all   == PositionLabel(c["nc_net_pos_all"])
        comm_tl_position_all == PositionLabel(c["comm_net_pos_all"])
        nc_tl_position_5y    == PositionLabel(c["nc_net_pos_5y"])
        comm_tl_position_5y  == PositionLabel(c["comm_net_pos_5y"])
        cons_all == Consensus(nc_tl_activity_all, comm_tl_activity_all,
                              nc_tl_flow_quality, comm_tl_flow_quality,
                              c["nc_net"], c["comm_net"],
                              c["nc_net_move_pct_all"], c["comm_net_move_pct_all"],
                              c["nc_rotation_share_1w"], c["comm_rotation_share_1w"],
                              nc_tl_position_all, comm_tl_position_all)
        cons_5y == Consensus(nc_tl_activity_5y, comm_tl_activity_5y,
                             nc_tl_flow_quality, comm_tl_flow_quality,
                             c["nc_net"], c["comm_net"],
                             c["nc_net_move_pct_5y"], c["comm_net_move_pct_5y"],
                             c["nc_rotation_share_1w"], c["comm_rotation_share_1w"],
                             nc_tl_position_5y, comm_tl_position_5y)
    IN  [open_interest_chg_1w |-> oi_chg_1w,
         oi_acceleration |-> oi_acceleration,
         oi_regime |-> oi_regime,
         oi_risk_level |-> oi_risk_level,
         activity_funds |-> activity_funds,
         activity_commercials |-> activity_commercials,
         flow_funds |-> flow_funds,
         flow_commercials |-> flow_commercials,
         positioning_funds |-> positioning_funds,
         positioning_commercials |-> positioning_commercials,
         conflict_level |-> conflict_level,
         cot_traffic_signal |->
             TrafficSignal(nc_net_delta, comm_net_delta, r.net_z_52w_funds, conflict_level),
         nc_tl_activity_all |-> nc_tl_activity_all,
         comm_tl_activity_all |-> comm_tl_activity_all,
         nc_tl_activity_5y |-> nc_tl_activity_5y,
         comm_tl_activity_5y |-> comm_tl_activity_5y,
         nc_tl_flow_quality |-> nc_tl_flow_quality,
         comm_tl_flow_quality |-> comm_tl_flow_quality,
         tl_consensus_type_all |-> cons_all.type,
         tl_consensus_conviction_all |-> cons_all.conviction,
         tl_consensus_type_5y |-> cons_5y.type,
         tl_consensus_conviction_5y |-> cons_5y.conviction]

(***************************************************************************)
(* Rows of the joined frame.  The joined columns are those of the six      *)
(* semantic tables and open_interest; a row is given by the cells the      *)
(* labels read.  The cells of a family of rows vary over the values that   *)
(* put them on either side of every threshold; the others keep BaseWeek's. *)
(***************************************************************************)
JoinedCols ==
    {"nc_net", "comm_net", "open_interest",
     "nc_long_chg_1w", "nc_short_chg_1w", "nc_net_chg_1w",
     "comm_long_chg_1w", "comm_short_chg_1w", "comm_net_chg_1w",
     "nc_net_move_pct_all", "comm_net_move_pct_all",
     "nc_net_move_pct_5y", "comm_net_move_pct_5y",
     "nc_rotation_share_1w", "comm_rotation_share_1w",
     "nc_net_pos_all", "comm_net_pos_all", "nc_net_pos_5y", "comm_net_pos_5y"}

BaseCells ==
    [col \in JoinedCols |->
        CASE col \in {"nc_net", "comm_net", "open_interest"} -> Num(10)
          [] col \in {"nc_long_chg_1w", "nc_short_chg_1w", "nc_net_chg_1w",
                      "comm_long_chg_1w", "comm_short_chg_1w", "comm_net_chg_1w"} -> Num(0)
          [] OTHER -> FracNaN]

BaseRolling ==
    [oi_z_52w |-> FracNaN, net_z_52w_funds |-> FracNaN, net_z_52w_commercials |-> FracNaN,
     prev_net_z_52w_commercials |-> FracNaN, nc_p75 |-> NaN, comm_p75 |-> NaN,
     prev_open_interest |-> NaN, open_interest_4w_ago |-> NaN, oi_median_abs_52 |-> FracNaN]

Week(cells, prev_comm_net, rolling) ==
    [cols |-> JoinedCols, cur |-> cells @@ BaseCells,
     prev_comm_net |-> prev_comm_net, rolling |-> rolling]

\* the three change columns of a group
Deltas(g, long, short, net) ==
    (Col(g, "long_chg_1w") :> long) @@ (Col(g, "short_chg_1w") :> short)
      @@ (Col(g, "net_chg_1w") :> net)

\* a directional week of a group whose net change is n (n even): long up n/2, short down n/2
Directional(g, n) ==
    IF IsNum(n) THEN Deltas(g, Num(n.v \div 2), Num(0 - (n.v \div 2)), n)
    ELSE Deltas(g, NaN, NaN, NaN)

DeltaVals == {NaN, Num(-4), Num(-1), Num(0), Num(1), Num(4)}
ZVals == {FracNaN, Frac(-4, 2), Frac(-3, 2), Frac(-2, 2), Frac(0, 2),
          Frac(2, 2), Frac(3, 2), Frac(4, 2)}

\* any long, short and net change of both groups
FlowWeeks ==
    {Week(Deltas("nc", l, s, n) @@ Deltas("comm", s, l, n), NaN, BaseRolling) :
        l \in DeltaVals, s \in DeltaVals, n \in DeltaVals}

\* commercials against their previous report
CommWeeks ==
    {Week(d @@ ("comm_net" :> IF IsNum(prev) /\ IsNum(d["comm_net_chg_1w"])
                              THEN Add(prev, d["comm_net_chg_1w"]) ELSE Num(2)),
          prev,
          [BaseRolling EXCEPT !.comm_p75 = p75, !.net_z_52w_commercials = z,
                              !.prev_net_z_52w_commercials = pz]) :
        d \in {Directional("comm", n) : n \in {NaN, Num(-4), Num(4)}}
              \cup {Deltas("comm", Num(1), Num(1), Num(0))},
        prev \in {NaN, Num(-6), Num(-2), Num(0), Num(2), Num(6)},
        p75 \in {NaN, Num(3), Num(5)},
        z \in {FracNaN, Frac(-4, 2), Frac(1, 2), Frac(3, 2)},
        pz \in {FracNaN, Frac(1, 2), Frac(-2, 2), Frac(4, 2)}}

\* funds against commercials, and open interest
SignalWeeks ==
    {Week(Directional("nc", n) @@ Directional("comm", m), NaN,
          [BaseRolling EXCEPT !.nc_p75 = p, !.comm_p75 = q,
                              !.net_z_52w_funds = z, !.oi_z_52w = oz]) :
        n \in {NaN, Num(-4), Num(0), Num(4)}, m \in {NaN, Num(-4), Num(0), Num(4)},
        p \in {NaN, Num(3)}, q \in {NaN, Num(3)},
        z \in ZVals, oz \in {FracNaN, Frac(2, 2), Frac(3, 2), Frac(4, 2), Frac(5, 2)}}

MovePcts == {FracNaN, Frac(1, 10), Frac(5, 10), Frac(9, 10)}
RotationShares == {FracNaN, Frac(1, 5), Frac(1, 2), Frac(4, 5)}

\* the inputs of the traffic-light labels and of the consensus
ConsensusWeeks ==
    {Week(("nc_net_move_pct_all" :> mn) @@ ("comm_net_move_pct_all" :> mc)
          @@ ("nc_net_move_pct_5y" :> IF five THEN mn ELSE FracNaN)
          @@ ("comm_net_move_pct_5y" :> IF five THEN mc ELSE FracNaN)
          @@ ("nc_rotation_share_1w" :> rn) @@ ("comm_rotation_share_1w" :> rcm)
          @@ ("nc_net" :> Num(nets[1])) @@ ("comm_net" :> Num(nets[2]))
          @@ ("nc_net_pos_all" :> pos[1]) @@ ("comm_net_pos_all" :> pos[2])
          @@ ("nc_net_pos_5y" :> IF five THEN pos[1] ELSE FracNaN)
          @@ ("comm_net_pos_5y" :> IF five THEN pos[2] ELSE FracNaN),
          NaN, BaseRolling) :
        mn \in MovePcts, mc \in MovePcts, rn \in RotationShares, rcm \in RotationShares,
        nets \in {<<2, 3>>, <<2, -3>>, <<-2, -3>>, <<0, 3>>},
        pos \in {<<Frac(1, 10), Frac(4, 5)>>, <<Frac(1, 2), Frac(1, 2)>>},
        five \in BOOLEAN}

\* open interest against its own history: the week's open interest is
\* BaseCells' 10; the earlier levels, the z-score and the median vary
OiWeeks ==
    {Week(<<>>, NaN,
          [BaseRolling EXCEPT !.prev_open_interest = prev, !.open_interest_4w_ago = ago,
                              !.oi_z_52w = z, !.oi_median_abs_52 = med]) :
        prev \in {NaN, Num(14), Num(11), Num(10), Num(9), Num(6)},
        ago \in {NaN, Num(10), Num(6), Num(-10), Num(30)},
        z \in ZVals,
        med \in {FracNaN, Frac(0, 1), Frac(20, 1), Frac(100, 1)}}

LabelInputs == FlowWeeks \cup CommWeeks \cup SignalWeeks \cup ConsensusWeeks \cup OiWeeks

(***************************************************************************)
(* build_market_radar_latest: the latest row of every market with its      *)
(* is_hot flag, hot_score, crowding flags and why_tags.  A metrics row     *)
(* carries cot_traffic_signal as a cell, the two z-scores and the          *)
(* commercials' z-score as fractions and the labels as strings; hot_score  *)
(* is an exact fraction in halves.                                         *)
(***************************************************************************)
\* df[df["report_date"] == groupby("market_key")["report_date"].transform("max")]
LatestRows(rows) ==
    SelectSeq(rows, LAMBDA r : \A j \in 1..Len(rows) :
                  rows[j].market_key = r.market_key => rows[j].report_date <= r.report_date)

\* _sign_with_eps
SignWithEps(val) ==
    IF IsNaN(val) THEN 0
    ELSE IF val.num = 0 THEN 0
    ELSE IF FracGt(val, Frac(0, 1)) THEN 1 ELSE -1

\* is_hot with only the High risk level counted (slip)
IsHotHighRiskOnly(cot_signal, conflict, oi_risk, oi_z, net_z) ==
    \/ NumGe(Abs(cot_signal), Num(1))
    \/ conflict = "High"
    \/ oi_risk = "High"
    \/ FracGe(FracAbs(oi_z), Frac(3, 2))
    \/ FracGe(FracAbs(net_z), Frac(3, 2))

\* is_hot: hot_conditions.fillna(False)
IsHot(cot_signal, conflict, oi_risk, oi_z, net_z) ==
    \/ NumGe(Abs(cot_signal), Num(1))
    \/ conflict = "High"
    \/ oi_risk \in {"Elevated", "High"}
    \/ FracGe(FracAbs(oi_z), Frac(3, 2))
    \/ FracGe(FracAbs(net_z), Frac(3, 2))

\* hot_score, in halves
HotScore(cot_signal, conflict, oi_risk, oi_z, net_z) ==
    Frac(4 * FillNa(Abs(cot_signal), Num(0)).v
         + (IF conflict = "High" THEN 4 ELSE 0)
         + (IF oi_risk = "High" THEN 2 ELSE 0)
         + (IF oi_risk = "Elevated" THEN 1 ELSE 0)
         + (IF FracGe(FracAbs(oi_z), Frac(3, 2)) THEN 2 ELSE 0)
         + (IF FracGe(FracAbs(net_z), Frac(3, 2)) THEN 2 ELSE 0), 2)

\* _build_tags without the formatted z-value: the first four tags by priority
BuildTags(row) ==
    LET z_funds == row["net_z_52w_funds"]
        z_oi == row["oi_z_52w"]
        tags ==
            (IF row["conflict_level"] = "High" THEN <<"High Conflict">> ELSE <<>>)
            \o (IF FracGe(FracAbs(z_funds), Frac(2, 1)) THEN <<"Funds Extreme">>
                ELSE IF FracGe(FracAbs(z_funds), Frac(3, 2)) THEN <<"Funds Crowded">>
                ELSE <<>>)
            \o (CASE row["oi_regime"] = "Expansion_Late" -> <<"OI: Expansion (Late)">>
                  [] row["oi_regime"] = "Expansion_Early" -> <<"OI: Expansion (Early)">>
                  [] row["oi_regime"] = "Distribution" -> <<"OI: Distribution">>
                  [] row["oi_regime"] = "Rebuild" -> <<"OI: Rebuild">>
                  [] OTHER -> <<>>)
            \o (IF row["oi_risk_level"] = "High" THEN <<"OI Risk: High">>
                ELSE IF row["oi_risk_level"] = "Elevated" THEN <<"OI Risk: Elevated">>
                ELSE <<>>)
            \o (IF FracGe(FracAbs(z_oi), Frac(2, 1)) THEN <<"OI Extreme">>
                ELSE IF FracGe(FracAbs(z_oi), Frac(3, 2)) THEN <<"OI Stretched">>
                ELSE <<>>)
    IN  SubSeq(tags, 1, IF Len(tags) < 4 THEN Len(tags) ELSE 4)

\* the row of the radar for a latest row of the metrics
RadarRow(r) ==
    LET c == r.c
        cot_signal == ToNumeric(c["cot_traffic_signal"])
        oi_z == c["oi_z_52w"]
        net_z == c["net_z_52w_funds"]
        net_z_comm == c["net_z_52w_commercials"]
        conflict == c["conflict_level"]
        oi_risk == c["oi_risk_level"]
        funds_crowded == FracGe(FracAbs(net_z), Frac(3, 2))
        commercial_opposition ==
            SignWithEps(net_z) # 0 /\ SignWithEps(net_z_comm) = 0 - SignWithEps(net_z)
    IN  [market_id |-> r.market_key,
         report_date |-> r.report_date,
         c |-> c,
         funds_crowded |-> funds_crowded,
         commercial_opposition |-> commercial_opposition,
         confirmed_imbalance |-> funds_crowded /\ commercial_opposition,
         is_hot |-> IsHot(cot_signal, conflict, oi_risk, oi_z, net_z),
         hot_score |-> HotScore(cot_signal, conflict, oi_risk, oi_z, net_z),
         why_tags |-> BuildTags(c)]

build_market_radar_latest(m) ==
    IF Len(m) = 0 THEN <<>>
    ELSE LET latest == LatestRows(m)
         IN  [i \in 1..Len(latest) |-> RadarRow(latest[i])]

(***************************************************************************)
(* Metrics tables for the radar: the row of interest is EUR's latest       *)
(* report, with every combination of signal, conflict level, risk level    *)
(* and z-scores; before it comes an older EUR report that is hot on every  *)
(* count, or after it a quiet GOLD report.                                 *)
(***************************************************************************)
RadarCells(cot, conflict, risk, oi_z, net_z, comm_z, regime) ==
    [col \in {"cot_traffic_signal", "conflict_level", "oi_risk_level", "oi_z_52w",
              "net_z_52w_funds", "net_z_52w_commercials", "oi_regime"} |->
        CASE col = "cot_traffic_signal" -> cot
          [] col = "conflict_level" -> conflict
          [] col = "oi_risk_level" -> risk
          [] col = "oi_z_52w" -> oi_z
          [] col = "net_z_52w_funds" -> net_z
          [] col = "net_z_52w_commercials" -> comm_z
          [] OTHER -> regime]

HotCells == RadarCells(Num(2), "High", "High", Frac(2, 1), Frac(2, 1), Frac(-2, 1), "Rebuild")
QuietCells == RadarCells(Num(0), "Low", "Low", Frac(0, 1), Frac(0, 1), Frac(0, 1), "Mixed")

RadarInputs ==
    {<<>>}
    \cup
    {(IF older THEN <<Row("EUR", 1, HotCells)>> ELSE <<>>)
       \o <<Row("EUR", MaxDate, RadarCells(cot, conflict, risk, oi_z, net_z, comm_z,
                                           IF older THEN "Distribution" ELSE "Mixed"))>>
       \o (IF older THEN <<>> ELSE <<Row("GOLD", 1, QuietCells)>>) :
        cot \in {NaN, Num(-2), Num(0), Num(1)},
        conflict \in {"Low", "Medium", "High"},
        risk \in {"N/A", "Low", "Elevated", "High"},
        oi_z \in {FracNaN, Frac(1, 1), Frac(3, 2), Frac(-2, 1)},
        net_z \in {FracNaN, Frac(0, 1), Frac(-3, 2), Frac(2, 1)},
        comm_z \in {FracNaN, Frac(1, 1)},
        older \in BOOLEAN}

(***************************************************************************)
(* src/common/markets_sync.py.  A YAML scalar is None or a text, a text    *)
(* being the sequence of its characters (str(value) for a number).         *)
(***************************************************************************)
Txt(s) == [kind |-> "str", s |-> s]
IsNone(v) == v.kind = "none"

Digits == {"0", "1", "2", "3", "4", "5", "6", "7", "8", "9"}

\* str.strip()
Strip(s) ==
    LET inked == {i \in 1..Len(s) : s[i] # " "}
    IN  IF inked = {} THEN <<>> ELSE SubSeq(s, MinOf(inked), MaxOf(inked))

\* str.endswith(suffix)
EndsWith(s, suffix) ==
    Len(s) >= Len(suffix) /\ SubSeq(s, Len(s) - Len(suffix) + 1, Len(s)) = suffix

\* str.isdigit()
IsDigit(s) == Len(s) > 0 /\ \A i \in 1..Len(s) : s[i] \in Digits

\* str.zfill(width) of a text of digits
ZFill(s, width) ==
    IF Len(s) >= width THEN s ELSE [i \in 1..(width - Len(s)) |-> "0"] \o s

\* _clean_contract_code
CleanContractCode(value) ==
    LET code   == IF IsNone(value) THEN <<>> ELSE Strip(value.s)
        nosuff == IF EndsWith(code, <<".", "0">>) THEN SubSeq(code, 1, Len(code) - 2)
                  ELSE code
    IN  IF IsDigit(nosuff) THEN ZFill(nosuff, 6) ELSE nosuff

\* bool(value) of a YAML scalar
Truthy(v) == ~IsNone(v) /\ Len(v.s) > 0

\* a or b
Or(a, b) == IF Truthy(a) THEN a ELSE b

\* c.get("symbol") or c.get("market_key") or c.get("key")
MarketKeyOf(c) == Or(c.symbol, Or(c.market_key, c.key))

\* c.get("enabled") is True
Enabled(c) == c.enabled = "True"

\* dictionary the markets list gets for a contract; a None category is popped
MarketEntry(c) ==
    LET base == [market_key |-> Strip(MarketKeyOf(c).s),
                 contract_code |-> CleanContractCode(c.contract_code)]
    IN  IF Truthy(c.category) THEN base @@ [category |-> Strip(c.category.s)] ELSE base

\* the key the loop remembers in `seen`
SeenKey(c) == <<MarketKeyOf(c), CleanContractCode(c.contract_code)>>

\* whether the loop appends an entry for the i-th enabled contract
Appends(cs, i) ==
    /\ Truthy(MarketKeyOf(cs[i]))
    /\ Len(CleanContractCode(cs[i].contract_code)) > 0
    /\ \A j \in 1..(i - 1) :
          (Truthy(MarketKeyOf(cs[j])) /\ Len(CleanContractCode(cs[j].contract_code)) > 0)
              => SeenKey(cs[j]) # SeenKey(cs[i])

\* the markets list built from the contracts
BuildMarkets(contracts) ==
    LET enabled_contracts == SelectSeq(contracts, Enabled)
        kept == {i \in 1..Len(enabled_contracts) : Appends(enabled_contracts, i)}
        nth(k) == CHOOSE i \in kept : Cardinality({j \in kept : j <= i}) = k
    IN  [k \in 1..Cardinality(kept) |-> MarketEntry(enabled_contracts[nth(k)])]

DefaultSource == "legacy_futures_only cftc.gov"

\* the source block to write: the existing one when there is one
SourceBlock(existing) ==
    IF IsNone(existing) \/ existing.source = "null" THEN DefaultSource ELSE existing.source

\* what sync_markets_from_contracts_meta leaves in markets.yaml
SyncedMarketsYaml(contracts_cfg, existing) ==
    IF IsNone(contracts_cfg) THEN existing
    ELSE [kind |-> "file", source |-> SourceBlock(existing),
          markets |-> BuildMarkets(contracts_cfg.contracts), others |-> FALSE]

(***************************************************************************)
(* The configuration files a sync may find.                                *)
(***************************************************************************)
MaxContracts == 2

EUR == <<"E", "U", "R">>
CodeTexts ==
    {<<"0", "9", "9", "7", "4", "1">>, <<"9", "9", "7", "4", "1">>,
     <<"9", "9", "7", "4", "1", ".", "0">>, <<" ", "9", "9", "7", "4", "1">>,
     <<"0", "8", "8", "6", "9", "1">>, <<"1", "3", "8", "7", "4", "A">>, <<>>}

ContractSet ==
    {[symbol |-> sym, market_key |-> None, key |-> None, contract_code |-> code,
      category |-> cat, enabled |-> en] :
        sym \in {None, Txt(EUR), Txt(EUR \o <<" ">>), Txt(<<"G", "C">>)},
        code \in {None} \cup {Txt(t) : t \in CodeTexts},
        cat \in {None, Txt(<<"F", "X">>)},
        en \in {"True", "False", "1"}}
    \cup
    {[symbol |-> sym, market_key |-> Txt(<<"J", "P", "Y">>), key |-> Txt(EUR),
      contract_code |-> Txt(<<"9", "7", "7", "4", "1">>), category |-> None,
      enabled |-> "True"] : sym \in {None, Txt(<<>>), Txt(EUR)}}

ContractsFiles ==
    {None} \cup
    {[kind |-> "file", contracts |-> cs] :
        cs \in UNION {[1..n -> ContractSet] : n \in 0..MaxContracts}}

MarketsFiles ==
    {None,
     [kind |-> "file", source |-> "example.test", markets |-> <<>>, others |-> TRUE],
     [kind |-> "file", source |-> "null",
      markets |-> <<[market_key |-> EUR, contract_code |-> <<"0", "0", "0", "0", "0", "0">>]>>,
      others |-> FALSE]}

(***************************************************************************)
(* src/app/auth.py.  The users table maps a normalized email to None or to *)
(* the row's role, status, auth_provider and password_hash (given by the   *)
(* password it was derived from, NoHash for NULL); the sessions table maps *)
(* a token to None or to the row's user, revoked flag and whether          *)
(* expires_at_utc has passed.  A browser session holds st.session_state's  *)
(* auth_email, auth_token and auth_method ("" or 0 when absent), the       *)
(* `auth` query parameter and the email of st.user ("" when not logged in  *)
(* with Google).  A world is the two tables and the calling browser        *)
(* session.                                                                *)
(***************************************************************************)
Owner == "owner@example.com"
Member == "user@example.com"
Emails == {Owner, Member}
NoHash == "NULL"

MaxTokens == 1
Tokens == 1..MaxTokens

UserRow(role, status, provider, hash) ==
    [kind |-> "user", role |-> role, status |-> status, provider |-> provider, hash |-> hash]
SessionRow(email) == [kind |-> "session", user |-> email, revoked |-> FALSE, expired |-> FALSE]
NoBrowser == [email |-> "", token |-> 0, method |-> "", query |-> 0, google |-> ""]

\* _is_valid_email and len(password) >= 8, on the inputs of the model
IsValidEmail(email) == email \in Emails
LongEnough(password) == password # "short"

\* verify_password: a NULL or foreign hash never verifies
VerifyPassword(password, hash) == hash # NoHash /\ hash = password

\* _status_label
StatusLabel(status) ==
    IF status = "pending" THEN "pending approval"
    ELSE IF status = "disabled" THEN "disabled" ELSE "active"

\* the sign-in gate letting every status but disabled through (slip)
IsActiveOrPending(status) == status # "disabled"

\* status != STATUS_ACTIVE, negated
IsActive(status) == status = "active"

\* _upsert_admin_role_if_needed
UpsertAdminRoleIfNeeded(us, admin, email) ==
    IF admin = "" \/ email # admin \/ IsNone(us[email]) THEN us
    ELSE [us EXCEPT ![email].role = "admin", ![email].status = "active"]

\* role and status of a row inserted for `email`
NewRole(admin, email) == IF admin # "" /\ email = admin THEN "admin" ELSE "user"
NewStatus(admin, email) == IF admin # "" /\ email = admin THEN "active" ELSE "pending"

\* _create_session_for_user and _remember_login: a fresh token, stored in the
\* session state and in the query parameter; nothing when the insert fails
\* (here: no token left)
RememberLogin(w, email) ==
    LET free == {t \in Tokens : IsNone(w.tokens[t])}
    IN  IF free = {} THEN w
        ELSE LET t == MinOf(free)
             IN  [w EXCEPT !.tokens[t] = SessionRow(email), !.b.token = t, !.b.query = t]

\* _set_auth_session
SetAuthSession(w, email, method) == [w EXCEPT !.b.email = email, !.b.method = method]

\* _revoke_session_token
RevokeSessionToken(tokens, token) ==
    IF token = 0 \/ IsNone(tokens[token]) THEN tokens
    ELSE [tokens EXCEPT ![token].revoked = TRUE]

\* _revoke_session_token, _clear_query_param_auth_token, _clear_auth_state
RevokeAndClear(w) ==
    [w EXCEPT !.tokens = RevokeSessionToken(w.tokens, w.b.token),
              !.b.query = 0, !.b.email = "", !.b.method = "", !.b.token = 0]

\* _load_user_by_session_token: the email of the row found, "" for None
LoadUserBySessionToken(w, token) ==
    IF /\ ~IsNone(w.tokens[token])
       /\ ~w.tokens[token].revoked
       /\ ~w.tokens[token].expired
       /\ ~IsNone(w.users[w.tokens[token].user])
    THEN w.tokens[token].user ELSE ""

Answer(w, ok, msg) == [w |-> w, ok |-> ok, msg |-> msg]

\* register_local
RegisterLocal(w, admin, email, password) ==
    IF ~IsValidEmail(email) THEN Answer(w, FALSE, "Invalid email format.")
    ELSE IF ~LongEnough(password)
    THEN Answer(w, FALSE, "Password must be at least 8 characters.")
    ELSE IF ~IsNone(w.users[email])
    THEN Answer(w, FALSE, "User with this email already exists.")
    ELSE Answer([w EXCEPT !.users[email] =
                     UserRow(NewRole(admin, email), NewStatus(admin, email), "local", password)],
                TRUE,
                IF NewStatus(admin, email) = "pending"
                THEN "Registration successful. You can sign in after admin approval."
                ELSE "Registration successful.")

\* authenticate_local
AuthenticateLocal(w, admin, email, password) ==
    IF ~IsValidEmail(email) \/ IsNone(w.users[email])
    THEN Answer(w, FALSE, "Invalid email or password.")
    ELSE LET w1 == [w EXCEPT !.users = UpsertAdminRoleIfNeeded(w.users, admin, email)]
             user == w1.users[email]
         IN  IF user.provider \notin {"local", "mixed"}
             THEN Answer(w1, FALSE, "Use Google login for this account.")
             ELSE IF ~VerifyPassword(password, user.hash)
             THEN Answer(w1, FALSE, "Invalid email or password.")
             ELSE IF ~IsActive(user.status)
             THEN Answer(w1, FALSE, "Account is " \o StatusLabel(user.status) \o ".")
             ELSE Answer(RememberLogin(SetAuthSession(w1, email, "local"), email), TRUE, "")

\* _sync_google_user
SyncGoogleUser(w, admin, email) ==
    LET w1 == IF IsNone(w.users[email])
              THEN [w EXCEPT !.users[email] =
                       UserRow(NewRole(admin, email), NewStatus(admin, email), "google", NoHash)]
              ELSE [w EXCEPT !.users =
                       [UpsertAdminRoleIfNeeded(w.users, admin, email)
                            EXCEPT ![email].provider = "google"]]
         user == w1.users[email]
    IN  IF ~IsActive(user.status)
        THEN Answer(w1, FALSE, "Account is " \o StatusLabel(user.status) \o ".")
        ELSE Answer(RememberLogin(SetAuthSession(w1, email, "google"), email), TRUE, "")

\* require_authentication: restore the persisted session token
RestoreSession(w) ==
    IF w.b.email # "" \/ w.b.query = 0 THEN w
    ELSE LET email == LoadUserBySessionToken(w, w.b.query)
         IN  IF email = "" THEN [w EXCEPT !.b.query = 0]
             ELSE IF IsActive(w.users[email].status)
             THEN [SetAuthSession(w, email, "token") EXCEPT !.b.token = w.b.query]
             ELSE [w EXCEPT !.tokens = RevokeSessionToken(w.tokens, w.b.query), !.b.query = 0]

\* require_authentication: enforce active status on every run
EnforceActive(w) ==
    IF w.b.email = "" THEN Answer(w, FALSE, "")
    ELSE IF IsNone(w.users[w.b.email]) THEN Answer(RevokeAndClear(w), FALSE, "")
    ELSE IF ~IsActive(w.users[w.b.email].status)
    THEN Answer(RevokeAndClear(w), FALSE,
                "Account is " \o StatusLabel(w.users[w.b.email].status) \o ".")
    ELSE Answer(w, TRUE, "")

\* require_authentication
RequireAuthentication(w, admin) ==
    LET synced == IF w.b.google # "" THEN SyncGoogleUser(w, admin, w.b.google)
                  ELSE Answer(w, TRUE, "")
    IN  IF ~synced.ok THEN synced
        ELSE EnforceActive(RestoreSession(synced.w))

\* _update_user_role_status
UpdateUserRoleStatus(us, admin, email, role, status) ==
    IF admin # "" /\ email = admin /\ role # "admin" THEN us
    ELSE IF IsNone(us[email]) THEN us
    ELSE [us EXCEPT ![email].role = role, ![email].status = status]

(***************************************************************************)
(* The orchestrator and the compute run at rest.                           *)
(***************************************************************************)
MaxInvocations == 3
Invocations == 1..MaxInvocations

NoLock == 0
NoRc == -1

OutputFiles == <<"positions_weekly", "changes_weekly", "flows_weekly", "rolling_weekly",
                 "extremes_weekly", "moves_weekly", "metrics_weekly",
                 "market_radar_latest", "market_positioning_latest">>
OutputFileSet == Rng(OutputFiles)

PipelineAtRest ==
    /\ lockFile = NoLock
    /\ pc = [p \in Invocations |-> "idle"]
    /\ kind = [p \in Invocations |-> "cli"]
    /\ stepIdx = [p \in Invocations |-> 0]
    /\ rc = [p \in Invocations |-> NoRc]
    /\ acquired = [p \in Invocations |-> FALSE]
    /\ ran = [p \in Invocations |-> <<>>]
    /\ exits = [p \in Invocations |-> <<>>]

ComputeAtRest ==
    /\ cpc = "idle"
    /\ runId = 0
    /\ files = [f \in OutputFileSet |-> 0]
    /\ validationErrors = FALSE

SyncAtRest ==
    /\ contractsMeta = None
    /\ marketsYaml = None
    /\ syncs = 0

AuthAtRest ==
    /\ adminEmail = ""
    /\ users = None
    /\ sessions = None
    /\ browser = None
    /\ authResult = None

AppAtRest ==
    /\ radarIn = None
    /\ radar = None
    /\ SyncAtRest
    /\ AuthAtRest

BuildersAtRest ==
    /\ stage = "none"
    /\ positions = None
    /\ changes = None
    /\ flows = None
    /\ joinIn = None
    /\ wide = None
    /\ extremes = None
    /\ moves = None
    /\ weeks = None
    /\ labels = None

(***************************************************************************)
(* The builders called as functions: the input is drawn at the start and   *)
(* the builder applied; a table one builder returns is the next one's      *)
(* input.                                                                  *)
(***************************************************************************)
OthersAtRest ==
    /\ PipelineAtRest /\ ComputeAtRest /\ AppAtRest
    /\ extremes = None /\ moves = None /\ weeks = None /\ labels = None

PositionsInit ==
    /\ OthersAtRest
    /\ stage = "canonical"
    /\ canonical \in CanonTables
    /\ positions = None /\ changes = None /\ flows = None /\ joinIn = None /\ wide = None

ChangesInit ==
    /\ OthersAtRest
    /\ stage = "positions"
    /\ positions \in PositionsInputs
    /\ canonical = None /\ changes = None /\ flows = None /\ joinIn = None /\ wide = None

FlowsInit ==
    /\ OthersAtRest
    /\ stage = "changes"
    /\ changes \in ChangesInputs
    /\ canonical = None /\ positions = None /\ flows = None /\ joinIn = None /\ wide = None

JoinInit ==
    /\ OthersAtRest
    /\ stage = "join"
    /\ joinIn \in JoinInputs
    /\ canonical = None /\ positions = None /\ changes = None /\ flows = None /\ wide = None

CallBuildPositions ==
    /\ stage = "canonical"
    /\ positions' = build_positions(canonical)
    /\ stage' = "built"
    /\ UNCHANGED <<canonical, changes, flows, joinIn, wide, pipelineVars, computeVars, appVars,
                 derivedVars>>

CallBuildChanges ==
    /\ stage = "positions"
    /\ changes' = build_changes(positions)
    /\ stage' = "changes"
    /\ UNCHANGED <<canonical, positions, flows, joinIn, wide, pipelineVars, computeVars, appVars,
                 derivedVars>>

CallBuildFlows ==
    /\ stage = "changes"
    /\ flows' = build_flows_weekly(changes)
    /\ stage' = "flows"
    /\ UNCHANGED <<canonical, positions, changes, joinIn, wide, pipelineVars, computeVars, appVars,
                 derivedVars>>

CallBuildWideMetrics ==
    /\ stage = "join"
    /\ wide' = build_wide_metrics(joinIn)
    /\ stage' = "wide"
    /\ UNCHANGED <<canonical, positions, changes, flows, joinIn, pipelineVars, computeVars, appVars,
                 derivedVars>>

ChangesNext == CallBuildChanges \/ CallBuildFlows

SpecPositions == PositionsInit /\ [][CallBuildPositions]_vars
SpecChanges   == ChangesInit /\ [][ChangesNext]_vars
SpecFlows     == FlowsInit /\ [][CallBuildFlows]_vars
SpecJoin      == JoinInit /\ [][CallBuildWideMetrics]_vars

(***************************************************************************)
(* Properties of the builders.                                             *)
(***************************************************************************)
Cell(r, g, x) == r.c[Col(g, x)]

\* rows of table t with key k
RowsAt(t, k) == {i \in 1..Len(t.rows) : KeyOf(t.rows[i]) = k}

\* the row of t with key k (keys are not repeated where this is used)
RowAt(t, k) == t.rows[CHOOSE i \in RowsAt(t, k) : TRUE]

\* long, short, total and net of a group are present and total, net are derived
PositionsDerived(r, g) ==
    /\ \A f \in FieldSet : IsNum(Cell(r, g, f))
    /\ Cell(r, g, "total").v = Cell(r, g, "long").v + Cell(r, g, "short").v
    /\ Cell(r, g, "net").v = Cell(r, g, "long").v - Cell(r, g, "short").v

TotalCoversNet(r, g) == Cell(r, g, "total").v >= AbsInt(Cell(r, g, "net").v)

\* C8 as stated: on every row build_positions produces from any canonical
\* table and for every group, long, short, total and net are present,
\* total = long + short, net = long - short and total >= |net|.
C8_AsStated ==
    stage = "built" =>
        \A i \in 1..Len(positions.rows) : \A g \in GroupSet :
            PositionsDerived(positions.rows[i], g) /\ TotalCoversNet(positions.rows[i], g)

\* C8 amended: on every row build_positions produces from any canonical
\* table (missing and non-numeric cells included) and for every group, long,
\* short, total and net are present, total = long + short and
\* net = long - short; total >= |net| on the rows whose long and short are
\* both non-negative.
C8_PositionsInvariant ==
    stage = "built" =>
        \A i \in 1..Len(positions.rows) : \A g \in GroupSet :
            LET r == positions.rows[i]
            IN  /\ PositionsDerived(r, g)
                /\ (Cell(r, g, "long").v >= 0 /\ Cell(r, g, "short").v >= 0)
                      => TotalCoversNet(r, g)

\* a row with a missing and a textual count was built into a row of zeros
\* next to a row of ordinary counts
C8_Witness ==
    /\ stage = "built"
    /\ \E i, j \in 1..Len(canonical.rows) :
          /\ IsNaN(canonical.rows[i].c["nc_long"])
          /\ canonical.rows[i].c["nc_short"].kind = "str"
          /\ RowAt(positions, KeyOf(canonical.rows[i])).c["nc_total"] = Num(0)
          /\ canonical.rows[j].c["nc_long"] = Num(13)
          /\ RowAt(positions, KeyOf(canonical.rows[j])).c["nc_net"] = Num(8)

\* the rows of a market that precede key k in report_date order
EarlierRows(t, k) ==
    {i \in 1..Len(t.rows) :
        t.rows[i].market_key = k.market_key /\ t.rows[i].report_date < k.report_date}

\* the row of the market's immediately preceding report_date
PrecedingRow(t, k) ==
    t.rows[CHOOSE i \in EarlierRows(t, k) :
              \A j \in EarlierRows(t, k) : t.rows[j].report_date <= t.rows[i].report_date]

\* C9: for any Positions table, whatever the order of its rows, build_changes
\* returns as many rows, one per key, and for every position field the change
\* is NaN on a market's earliest report_date and otherwise the value on that
\* date minus the value on the same market's immediately preceding report_date.
C9_ChangesAreFirstDifferences ==
    (stage \in {"changes", "flows"} /\ positions # None) =>
        /\ Len(changes.rows) = Len(positions.rows)
        /\ \A i \in 1..Len(positions.rows) :
              LET p == positions.rows[i]
                  k == KeyOf(p)
              IN  /\ Cardinality(RowsAt(changes, k)) = 1
                  /\ \A col \in PositionCols :
                        RowAt(changes, k).c[ChgCol(col)] =
                            IF EarlierRows(positions, k) = {} THEN NaN
                            ELSE Num(p.c[col].v - PrecedingRow(positions, k).c[col].v)

\* changes were built from a table whose rows were out of order and held two
\* weeks of one market and a week of another
C9_Witness ==
    /\ stage = "changes"
    /\ positions # None
    /\ \E i, j, k \in 1..Len(positions.rows) :
          /\ i < j
          /\ KeyLess(positions.rows[j], positions.rows[i])
          /\ positions.rows[i].market_key = positions.rows[j].market_key
          /\ positions.rows[k].market_key # positions.rows[i].market_key
          /\ RowAt(changes, KeyOf(positions.rows[i])).c["nc_long_chg_1w"] = Num(10)

\* C10: in the Changes table built from a Positions table, on every row
\* after a market's first and for every group, net_chg_1w = long_chg_1w -
\* short_chg_1w and total_chg_1w = long_chg_1w + short_chg_1w; and the Flows
\* columns net_chg_1w_calc, total_chg_1w_calc built from it equal the Changes
\* columns net_chg_1w, total_chg_1w on every row where they are non-null.
C10_NetChangeIdentity ==
    (stage \in {"changes", "flows"} /\ positions # None) =>
        /\ \A i \in 1..Len(changes.rows) : \A g \in GroupSet :
              LET r == changes.rows[i]
              IN  EarlierRows(changes, KeyOf(r)) # {} =>
                    /\ \A f \in FieldSet : IsNum(Cell(r, g, ChgCol(f)))
                    /\ Cell(r, g, "net_chg_1w").v =
                          Cell(r, g, "long_chg_1w").v - Cell(r, g, "short_chg_1w").v
                    /\ Cell(r, g, "total_chg_1w").v =
                          Cell(r, g, "long_chg_1w").v + Cell(r, g, "short_chg_1w").v
        /\ stage = "flows" =>
              \A i \in 1..Len(flows.rows) : \A g \in GroupSet :
                  LET fr == flows.rows[i]
                      cr == RowAt(changes, KeyOf(fr))
                  IN  /\ ~IsNaN(Cell(fr, g, "net_chg_1w_calc")) =>
                            Cell(fr, g, "net_chg_1w_calc") = Cell(cr, g, "net_chg_1w")
                      /\ ~IsNaN(Cell(fr, g, "total_chg_1w_calc")) =>
                            Cell(fr, g, "total_chg_1w_calc") = Cell(cr, g, "total_chg_1w")

\* flows were built in the pipeline and a row has long and short moving by
\* different amounts
C10_Witness ==
    /\ stage = "flows"
    /\ positions # None
    /\ \E i \in 1..Len(flows.rows) :
          /\ flows.rows[i].c["nc_net_chg_1w_calc"] = Num(6)
          /\ flows.rows[i].c["nc_total_chg_1w_calc"] = Num(14)
          /\ RowAt(changes, KeyOf(flows.rows[i])).c["nc_short_chg_1w"] = Num(4)

\* net_abs + rotation = gross, and the shares add up to 1 when gross > 0
Decomposes(fr, g) ==
    LET gross    == Cell(fr, g, "gross_chg_1w")
        net_abs  == Cell(fr, g, "net_abs_chg_1w")
        rotation == Cell(fr, g, "rotation_1w")
        rs       == Cell(fr, g, "rotation_share_1w")
        ns       == Cell(fr, g, "net_share_1w")
    IN  (IsNum(gross) /\ IsNum(net_abs) /\ IsNum(rotation)) =>
            /\ net_abs.v + rotation.v = gross.v
            /\ gross.v > 0 =>
                  /\ rs.kind = "num" /\ ns.kind = "num"
                  /\ rs.num * ns.den + ns.num * rs.den = rs.den * ns.den

\* the group's net change, where the row has one, is long change - short change
NetAgrees(cols, cr, g) ==
    (Col(g, "net_chg_1w") \in cols /\ IsNum(Cell(cr, g, "net_chg_1w"))) =>
        Cell(cr, g, "net_chg_1w") =
            Sub(Cell(cr, g, "long_chg_1w"), Cell(cr, g, "short_chg_1w"))

\* C7 as stated: for every row build_flows_weekly produces from any Changes
\* table and every group, if gross, net_abs and rotation are non-null then
\* net_abs + rotation = gross, and if also gross > 0 then
\* rotation_share + net_share = 1.
C7_AsStated ==
    stage = "flows" =>
        \A i \in 1..Len(flows.rows) : \A g \in GroupSet : Decomposes(flows.rows[i], g)

\* C7 amended: the same, for the rows and groups of a Changes table whose
\* net_chg_1w, where present, equals long_chg_1w - short_chg_1w (as in every
\* table build_changes returns).
C7_FlowsDecomposition ==
    stage = "flows" =>
        \A i \in 1..Len(flows.rows) : \A g \in GroupSet :
            LET fr == flows.rows[i]
                cr == RowAt(changes, KeyOf(fr))
            IN  ({Col(g, "long_chg_1w"), Col(g, "short_chg_1w")} \subseteq changes.cols
                    /\ NetAgrees(changes.cols, cr, g))
                  => Decomposes(fr, g)

\* flows were built from a row whose stored net change agrees with its long
\* and short changes, part of the move being rotation
C7_Witness ==
    /\ stage = "flows"
    /\ \E g \in GroupSet :
          LET fr == flows.rows[1]
              cr == changes.rows[1]
          IN  /\ Col(g, "net_chg_1w") \in changes.cols
              /\ Cell(cr, g, "long_chg_1w") = Num(1)
              /\ Cell(cr, g, "short_chg_1w") = Num(3)
              /\ Cell(cr, g, "net_chg_1w") = Num(-2)
              /\ Cell(fr, g, "rotation_1w") = Num(2)
              /\ Cell(fr, g, "rotation_share_1w") = Frac(2, 4)

KeysOf(rows) == {KeyOf(rows[i]) : i \in 1..Len(rows)}

\* C5: whenever build_wide_metrics returns a table, the table has exactly one
\* row for every (market_key, report_date) of positions and no other row.
C5_OneRowPerPositionsKey ==
    (stage = "wide" /\ wide.status = "returned") =>
        /\ Len(wide.rows) = Len(joinIn.positions.rows)
        /\ Duplicated(wide.rows) = 0
        /\ KeysOf(wide.rows) = KeysOf(joinIn.positions.rows)

\* a table was returned although another input lacked one of positions' keys
C5_Witness ==
    /\ stage = "wide"
    /\ wide.status = "returned"
    /\ Len(wide.rows) = 2
    /\ KeysOf(joinIn.canonical.rows) # KeysOf(joinIn.positions.rows)
    /\ \E i \in 1..Len(wide.rows) : IsNaN(wide.rows[i].c["open_interest"])

\* C6: build_wide_metrics raises, before any join, whenever one of its six
\* semantic tables repeats a (market_key, report_date) or a column other than
\* the keys occurs in more than one of them.
C6_RaisesBeforeJoin ==
    stage = "wide" =>
        LET tables == SemanticTables(joinIn)
            repeated == \E n \in 1..6 : \E i, j \in 1..Len(tables[n].rows) :
                            i # j /\ KeyOf(tables[n].rows[i]) = KeyOf(tables[n].rows[j])
            shared == \E m, n \in 1..6 : m # n /\ tables[m].cols \cap tables[n].cols # {}
        IN  (repeated \/ shared) => (wide.status = "raised" /\ wide.joins = 0)

\* the call raised on a column two tables share, every key being unique
C6_Witness ==
    /\ stage = "wide"
    /\ wide.status = "raised"
    /\ wide.at = "column collisions"
    /\ Len(joinIn.positions.rows) = 2

(***************************************************************************)
(* build_extremes called as a function.                                    *)
(***************************************************************************)
ExtremesInit ==
    /\ PipelineAtRest /\ ComputeAtRest /\ AppAtRest
    /\ stage = "positions"
    /\ positions \in ExtremesInputs
    /\ canonical = None /\ changes = None /\ flows = None /\ joinIn = None /\ wide = None
    /\ extremes = None /\ moves = None /\ weeks = None /\ labels = None

CallBuildExtremes ==
    /\ stage = "positions"
    /\ extremes' = build_extremes(positions)
    /\ stage' = "extremes"
    /\ UNCHANGED <<canonical, positions, changes, flows, joinIn, wide, moves, weeks, labels,
                   pipelineVars, computeVars, appVars>>

SpecExtremes == ExtremesInit /\ [][CallBuildExtremes]_vars

\* the rows of market m in table t
RowsOf(t, m) == {i \in 1..Len(t.rows) : t.rows[i].market_key = m}

\* how many reports of its market are dated up to row i's (its place in the history)
WeekNo(t, i) ==
    Cardinality({j \in RowsOf(t, t.rows[i].market_key) :
                    t.rows[j].report_date <= t.rows[i].report_date})

\* a fraction lies in [0, 1]
InUnit(f) == f.den > 0 /\ 0 <= f.num /\ f.num <= f.den

\* C11: for any market whose value of a position metric is the same on every
\* row of its history, build_extremes gives pos_all = 0.5 on every row of that
\* market where the value is present, whatever the values of the other
\* markets in the table.
C11_FlatSeriesIsHalf ==
    stage = "extremes" =>
        \A m \in MarketSet : \A col \in positions.cols :
            LET vals == {positions.rows[i].c[col] : i \in RowsOf(positions, m)}
            IN  Cardinality(vals) = 1 =>
                    \A i \in RowsOf(extremes, m) :
                        IsNum(RowAt(positions, KeyOf(extremes.rows[i])).c[col]) =>
                            extremes.rows[i].c[Col(col, "pos_all")] = Half

\* EUR is flat over several reports while GOLD, in the same table, is not
C11_Witness ==
    /\ stage = "extremes"
    /\ \E col \in positions.cols :
          /\ Cardinality({positions.rows[i].c[col] : i \in RowsOf(positions, "EUR")}) = 1
          /\ Cardinality(RowsOf(positions, "EUR")) > 1
          /\ Cardinality({positions.rows[i].c[col] : i \in RowsOf(positions, "GOLD")}) > 1
          /\ \E i \in RowsOf(extremes, "EUR") : extremes.rows[i].c[Col(col, "pos_all")] = Half

\* C12: for every market and every position metric, pos_5y is NaN on each of
\* the market's first 51 rows in report_date order and defined on the 52nd
\* and every later row; the count restarts for each market.
C12_MaturesAt52 ==
    stage = "extremes" =>
        \A i \in 1..Len(extremes.rows) : \A col \in positions.cols :
            LET pos_5y == extremes.rows[i].c[Col(col, "pos_5y")]
            IN  IF WeekNo(extremes, i) <= 51 THEN IsNaN(pos_5y) ELSE IsNum(pos_5y)

\* a market reached its 52nd report, and the market after it in the frame
\* has 51 reports
C12_Witness ==
    /\ stage = "extremes"
    /\ Cardinality(RowsOf(extremes, "EUR")) >= 52
    /\ Cardinality(RowsOf(extremes, "GOLD")) = 51
    /\ \E i \in RowsOf(extremes, "EUR"), col \in positions.cols :
          WeekNo(extremes, i) = 52 /\ IsNum(extremes.rows[i].c[Col(col, "pos_5y")])
    /\ \E i \in RowsOf(extremes, "GOLD"), col \in positions.cols :
          WeekNo(extremes, i) = 51 /\ IsNaN(extremes.rows[i].c[Col(col, "pos_5y")])

\* the values of column col of market m in reports lo..hi
ValuesIn(t, m, col, lo, hi) ==
    {t.rows[j].c[col].v : j \in {k \in RowsOf(t, m) :
        /\ lo <= t.rows[k].report_date /\ t.rows[k].report_date <= hi
        /\ IsNum(t.rows[k].c[col])}}

\* pos is v placed between the least and the greatest of vals (0.5 when equal)
PlacedIn(pos, v, vals) ==
    /\ v \in vals
    /\ LET lo == MinOf(vals)
           hi == MaxOf(vals)
       IN  IF hi > lo
           THEN pos.num * (hi - lo) = (v - lo) * pos.den
           ELSE pos = Half

\* C13: every non-NaN pos_all and pos_5y lies in [0, 1]; pos_all is the
\* value's place between the market's min and max over its entire history,
\* the same two values on every row of the market; pos_5y is its place
\* between the min and max of the 260 reports ending at the current row,
\* that row included.
C13_PositionsInUnitRange ==
    stage = "extremes" =>
        \A i \in 1..Len(extremes.rows) : \A col \in positions.cols :
            LET er == extremes.rows[i]
                m == er.market_key
                d == er.report_date
                v == RowAt(positions, KeyOf(er)).c[col].v
                pos_all == er.c[Col(col, "pos_all")]
                pos_5y == er.c[Col(col, "pos_5y")]
            IN  /\ IsNum(pos_all) =>
                      /\ InUnit(pos_all)
                      /\ PlacedIn(pos_all, v, ValuesIn(positions, m, col, 1, MaxWeeks + 1))
                /\ \A j \in RowsOf(extremes, m) :
                      /\ extremes.rows[j].c[Col(col, "min_all")] = er.c[Col(col, "min_all")]
                      /\ extremes.rows[j].c[Col(col, "max_all")] = er.c[Col(col, "max_all")]
                /\ IsNum(pos_5y) =>
                      /\ InUnit(pos_5y)
                      /\ PlacedIn(pos_5y, v, ValuesIn(positions, m, col, d - 259, d))

\* a market has more than 260 reports, and on the last one the window's
\* maximum is no longer the all-time maximum
C13_Witness ==
    /\ stage = "extremes"
    /\ \E i \in 1..Len(extremes.rows) : \E col \in positions.cols :
          /\ WeekNo(extremes, i) > 260
          /\ IsNum(extremes.rows[i].c[Col(col, "pos_5y")])
          /\ extremes.rows[i].c[Col(col, "max_5y")] # extremes.rows[i].c[Col(col, "max_all")]
          /\ extremes.rows[i].c[Col(col, "pos_5y")] # extremes.rows[i].c[Col(col, "pos_all")]

(***************************************************************************)
(* build_moves_weekly called as a function.                                *)
(***************************************************************************)
MovesInit ==
    /\ PipelineAtRest /\ ComputeAtRest /\ AppAtRest
    /\ stage = "changes"
    /\ changes \in MovesInputs
    /\ canonical = None /\ positions = None /\ flows = None /\ joinIn = None /\ wide = None
    /\ extremes = None /\ moves = None /\ weeks = None /\ labels = None

CallBuildMoves ==
    /\ stage = "changes"
    /\ moves' = build_moves_weekly(changes)
    /\ stage' = "moves"
    /\ UNCHANGED <<canonical, positions, changes, flows, joinIn, wide, extremes, weeks, labels,
                   pipelineVars, computeVars, appVars>>

SpecMoves == MovesInit /\ [][CallBuildMoves]_vars

LabelsInit ==
    /\ PipelineAtRest /\ ComputeAtRest /\ AppAtRest
    /\ stage = "joined"
    /\ weeks \in LabelInputs
    /\ canonical = None /\ positions = None /\ changes = None /\ flows = None
    /\ joinIn = None /\ wide = None
    /\ extremes = None /\ moves = None /\ labels = None

AddDerivedColumns ==
    /\ stage = "joined"
    /\ labels' = DerivedColumns(weeks)
    /\ stage' = "labelled"
    /\ UNCHANGED <<canonical, positions, changes, flows, joinIn, wide, extremes, moves, weeks,
                   pipelineVars, computeVars, appVars>>

SpecLabels == LabelsInit /\ [][AddDerivedColumns]_vars

\* the bracket [condition] of a score
Bracket(b) == IF b THEN 1 ELSE 0

\* C15: where oi_z_52w is present, oi_risk_level is the bucket (Low if
\* score <= 1, Elevated if 2, High if >= 3) of [oi_z_52w >= 1.5] +
\* [oi_z_52w >= 2.0] + [positioning_funds starts with 'Crowded'] +
\* [conflict_level is High]; where oi_z_52w is missing it is N/A.
C15_RiskCountsCrowdingAndConflict ==
    stage = "labelled" =>
        LET z == weeks.rolling.oi_z_52w
            score == Bracket(FracGe(z, Frac(3, 2))) + Bracket(FracGe(z, Frac(2, 1)))
                     + Bracket(labels.positioning_funds \in {"Crowded Long", "Crowded Short"})
                     + Bracket(labels.conflict_level = "High")
        IN  labels.oi_risk_level =
                IF IsNaN(z) THEN "N/A"
                ELSE IF score <= 1 THEN "Low" ELSE IF score = 2 THEN "Elevated" ELSE "High"

\* C16: positioning_commercials is 'Unwound' on exactly the rows where
\* commercials are Aggressive and Directional, the sign of their net position
\* differs from the sign of the market's prior-week net position (both
\* nonzero) and the prior week's |z| >= 1.0; elsewhere it is Crowded Long if
\* z >= 1.5, Crowded Short if z <= -1.5, else Balanced.
C16_UnwoundOnSignFlip ==
    stage = "labelled" =>
        LET net  == weeks.cur["comm_net"]
            prev == weeks.prev_comm_net
            z    == weeks.rolling.net_z_52w_commercials
            pz   == weeks.rolling.prev_net_z_52w_commercials
            flipped == /\ IsNum(net) /\ IsNum(prev)
                       /\ \/ net.v > 0 /\ prev.v < 0
                          \/ net.v < 0 /\ prev.v > 0
            unwound == /\ labels.activity_commercials = "Aggressive"
                       /\ labels.flow_commercials = "Directional"
                       /\ flipped
                       /\ IsNum(pz) /\ AbsInt(pz.num) >= pz.den
        IN  labels.positioning_commercials =
                IF unwound THEN "Unwound"
                ELSE IF FracGe(z, Frac(3, 2)) THEN "Crowded Long"
                ELSE IF FracLe(z, Frac(-3, 2)) THEN "Crowded Short"
                ELSE "Balanced"

\* both groups are Aggressive and Directional
BothAggressiveDirectional(act_nc, act_comm) ==
    /\ act_nc = "Aggressive" /\ act_comm = "Aggressive"
    /\ labels.nc_tl_flow_quality = "Directional"
    /\ labels.comm_tl_flow_quality = "Directional"

ConsensusAsStated(type, conviction, act_nc, act_comm) ==
    LET nc   == weeks.cur["nc_net"].v
        comm == weeks.cur["comm_net"].v
    IN  /\ type = "Alignment" =>
              /\ BothAggressiveDirectional(act_nc, act_comm)
              /\ (nc > 0 /\ comm > 0) \/ (nc < 0 /\ comm < 0)
        /\ type = "Conflict" =>
              /\ BothAggressiveDirectional(act_nc, act_comm)
              /\ (nc > 0 /\ comm < 0) \/ (nc < 0 /\ comm > 0)
        /\ ("N/A" \in {act_nc, act_comm, labels.nc_tl_flow_quality,
                       labels.comm_tl_flow_quality}) =>
              (type = "N/A" /\ conviction = "N/A")

\* C17: the consensus type (_all and _5y) is 'Alignment' only if both
\* groups' activity label is Aggressive, both flow-quality labels are
\* Directional and the two groups have the same sign, 'Conflict' only if
\* both are Aggressive and Directional with opposite signs; when any activity
\* or flow-quality label is N/A, type and conviction are both N/A.
C17_ConsensusNeedsAggressive ==
    stage = "labelled" =>
        /\ ConsensusAsStated(labels.tl_consensus_type_all, labels.tl_consensus_conviction_all,
                             labels.nc_tl_activity_all, labels.comm_tl_activity_all)
        /\ ConsensusAsStated(labels.tl_consensus_type_5y, labels.tl_consensus_conviction_5y,
                             labels.nc_tl_activity_5y, labels.comm_tl_activity_5y)

\* C18: where a label's numeric inputs are missing the label is 'N/A':
\* flow_funds / flow_commercials when the group's long or short weekly delta
\* is missing, positioning_funds / positioning_commercials when the group's
\* 52-week net z-score is missing.
C18_MissingInputsGiveNA ==
    stage = "labelled" =>
        /\ (IsNaN(weeks.cur["nc_long_chg_1w"]) \/ IsNaN(weeks.cur["nc_short_chg_1w"]))
              => labels.flow_funds = "N/A"
        /\ (IsNaN(weeks.cur["comm_long_chg_1w"]) \/ IsNaN(weeks.cur["comm_short_chg_1w"]))
              => labels.flow_commercials = "N/A"
        /\ IsNaN(weeks.rolling.net_z_52w_funds) => labels.positioning_funds = "N/A"
        /\ IsNaN(weeks.rolling.net_z_52w_commercials) => labels.positioning_commercials = "N/A"

\* the flow label the three deltas of group g call for
FlowLabelAsStated(g) ==
    LET l == weeks.cur[Col(g, "long_chg_1w")].v
        s == weeks.cur[Col(g, "short_chg_1w")].v
        n == weeks.cur[Col(g, "net_chg_1w")].v
    IN  IF l = 0 /\ s = 0 THEN "N/A"
        ELSE IF /\ (l > 0 /\ s < 0) \/ (l < 0 /\ s > 0)
                /\ 2 * AbsInt(n) > MaxInt(AbsInt(l), AbsInt(s))
             THEN "Directional"
        ELSE "Rotational"

DeltasPresent(g) ==
    \A x \in {"long_chg_1w", "short_chg_1w", "net_chg_1w"} : IsNum(weeks.cur[Col(g, x)])

\* C19: on a row whose long, short and net weekly deltas are all present, a
\* group's flow label is 'N/A' if both long and short deltas are zero,
\* otherwise 'Directional' if they have opposite nonzero signs and
\* |net delta| > 0.5 * max(|long delta|, |short delta|), otherwise
\* 'Rotational'.
C19_FlowLabelRule ==
    stage = "labelled" =>
        /\ DeltasPresent("nc") => labels.flow_funds = FlowLabelAsStated("nc")
        /\ DeltasPresent("comm") => labels.flow_commercials = FlowLabelAsStated("comm")

\* long and short moved in opposite directions but the net change is within
\* half the larger leg: Rotational
C19_Witness ==
    /\ stage = "labelled"
    /\ weeks.cur["nc_long_chg_1w"] = Num(4)
    /\ weeks.cur["nc_short_chg_1w"] = Num(-4)
    /\ weeks.cur["nc_net_chg_1w"] = Num(1)
    /\ labels.flow_funds = "Rotational"

\* C20: cot_traffic_signal is an integer in [-2, +2] equal to
\* clamp(flow_score + positioning_score + conflict_penalty, -2, +2) with
\* flow_score = [commercials' net change > 0] - [funds' net change < 0],
\* positioning_score = [funds z <= -1.5] - [funds z >= 1.5],
\* conflict_penalty = -[conflict_level = High]; a bracket whose input is
\* missing counts as 0.
C20_TrafficSignalRule ==
    stage = "labelled" =>
        LET nc   == weeks.cur["nc_net_chg_1w"]
            comm == weeks.cur["comm_net_chg_1w"]
            z    == weeks.rolling.net_z_52w_funds
            flow_score == Bracket(IsNum(comm) /\ comm.v > 0) - Bracket(IsNum(nc) /\ nc.v < 0)
            positioning_score ==
                Bracket(IsNum(z) /\ 2 * z.num <= -3 * z.den)
                - Bracket(IsNum(z) /\ 2 * z.num >= 3 * z.den)
            conflict_penalty == 0 - Bracket(labels.conflict_level = "High")
            sum == flow_score + positioning_score + conflict_penalty
        IN  /\ labels.cot_traffic_signal \in -2..2
            /\ labels.cot_traffic_signal = MaxInt(-2, IF sum > 2 THEN 2 ELSE sum)

\* funds crowded long and in High conflict with commercials: the signal is -2
C20_Witness ==
    /\ stage = "labelled"
    /\ labels.conflict_level = "High"
    /\ FracGe(weeks.rolling.net_z_52w_funds, Frac(3, 2))
    /\ labels.cot_traffic_signal = -2

\* C21: on every row where the 1-week open-interest delta, the acceleration,
\* oi_z_52w and the small-move threshold are all present, oi_regime is the
\* first label whose condition holds in the order Expansion_Early (delta > 0,
\* accel > 0, z < 1.5), Expansion_Late (delta > 0, accel >= 0, z >= 1.5),
\* Distribution (delta < 0, z >= 1.5), Neutral (|delta| <= threshold,
\* |z| < 1.0), Rebuild (delta > 0, z <= -1.0), else Mixed; where any of the
\* four is missing, oi_regime is N/A.
C21_RegimeIsFirstMatch ==
    stage = "labelled" =>
        LET d == ToFrac(labels.open_interest_chg_1w)
            a == labels.oi_acceleration
            z == weeks.rolling.oi_z_52w
            t == SmallThreshold(weeks.rolling.oi_median_abs_52)
            conds == <<FracGt(d, Frac(0, 1)) /\ FracGt(a, Frac(0, 1)) /\ FracLt(z, Frac(3, 2)),
                       FracGt(d, Frac(0, 1)) /\ FracGe(a, Frac(0, 1)) /\ FracGe(z, Frac(3, 2)),
                       FracLt(d, Frac(0, 1)) /\ FracGe(z, Frac(3, 2)),
                       FracLe(FracAbs(d), t) /\ FracLt(FracAbs(z), Frac(1, 1)),
                       FracGt(d, Frac(0, 1)) /\ FracLe(z, Frac(-1, 1)),
                       TRUE>>
            names == <<"Expansion_Early", "Expansion_Late", "Distribution", "Neutral",
                       "Rebuild", "Mixed">>
            first == CHOOSE i \in 1..6 : conds[i] /\ \A j \in 1..(i - 1) : ~conds[j]
        IN  IF IsNum(d) /\ IsNum(a) /\ IsNum(z) /\ IsNum(t)
            THEN labels.oi_regime = names[first]
            ELSE labels.oi_regime = "N/A"

\* a rising market at a depressed level whose rise accelerates: both
\* Expansion_Early and Rebuild apply, and the order decides
C21_Witness ==
    /\ stage = "labelled"
    /\ labels.oi_regime = "Expansion_Early"
    /\ FracLe(weeks.rolling.oi_z_52w, Frac(-1, 1))
    /\ IsNum(weeks.rolling.oi_median_abs_52)

\* C27: on every row whose conflict_level is High, cot_traffic_signal is at
\* most 0: the signal is +1 or +2 only on rows whose conflict_level is Low
\* or Medium.
C27_HighConflictNeverPositive ==
    stage = "labelled" =>
        /\ labels.conflict_level = "High" => labels.cot_traffic_signal <= 0
        /\ labels.cot_traffic_signal \in {1, 2} => labels.conflict_level \in {"Low", "Medium"}

\* a High conflict on a row whose funds are crowded short: the positioning
\* score is +1 and the signal is still 0
C27_Witness ==
    /\ stage = "labelled"
    /\ labels.conflict_level = "High"
    /\ FracLe(weeks.rolling.net_z_52w_funds, Frac(-3, 2))
    /\ labels.cot_traffic_signal = 0

(***************************************************************************)
(* build_market_radar_latest applied to a metrics table.                   *)
(***************************************************************************)
RadarInit ==
    /\ PipelineAtRest /\ ComputeAtRest
    /\ stage = "metrics"
    /\ radarIn \in RadarInputs
    /\ radar = None
    /\ SyncAtRest /\ AuthAtRest
    /\ canonical = None /\ positions = None /\ changes = None /\ flows = None
    /\ joinIn = None /\ wide = None
    /\ extremes = None /\ moves = None /\ weeks = None /\ labels = None

CallBuildMarketRadar ==
    /\ stage = "metrics"
    /\ radar' = build_market_radar_latest(radarIn)
    /\ stage' = "radar"
    /\ UNCHANGED <<radarIn, canonical, positions, changes, flows, joinIn, wide, derivedVars,
                   pipelineVars, computeVars, syncVars, authVars>>

SpecRadar == RadarInit /\ [][CallBuildMarketRadar]_vars

\* C28: in the table returned by build_market_radar_latest, is_hot is true
\* on exactly the rows whose hot_score is greater than 0, for every
\* combination of cot_traffic_signal (integer or missing), conflict_level,
\* oi_risk_level, oi_z_52w and net_z_52w_funds (present or missing).
C28_HotIffPositiveScore ==
    stage = "radar" =>
        \A i \in 1..Len(radar) : radar[i].is_hot <=> FracGt(radar[i].hot_score, Frac(0, 1))

\* a latest row that is hot on no count but an Elevated risk level: score 0.5
C28_Witness ==
    /\ stage = "radar"
    /\ \E i \in 1..Len(radar) :
          /\ radar[i].is_hot
          /\ radar[i].hot_score = Frac(1, 2)
          /\ IsNaN(radar[i].c["cot_traffic_signal"])

(***************************************************************************)
(* sync_markets_from_contracts_meta called on the configuration files, and *)
(* called again.                                                           *)
(***************************************************************************)
MaxSyncs == 2

SyncInit ==
    /\ PipelineAtRest /\ ComputeAtRest /\ BuildersAtRest
    /\ canonical = None
    /\ radarIn = None /\ radar = None
    /\ contractsMeta \in ContractsFiles
    /\ marketsYaml \in MarketsFiles
    /\ syncs = 0
    /\ AuthAtRest

SyncMarkets ==
    /\ syncs < MaxSyncs
    /\ syncs' = syncs + 1
    /\ marketsYaml' = SyncedMarketsYaml(contractsMeta, marketsYaml)
    /\ UNCHANGED <<contractsMeta, radarIn, radar, canonical, builderVars, pipelineVars,
                   computeVars, authVars>>

SpecSync == SyncInit /\ [][SyncMarkets]_vars

\* the (market key, normalized contract code) of a contract, the market key
\* as the entries carry it
PairOf(c) == <<Strip(MarketKeyOf(c).s), CleanContractCode(c.contract_code)>>
HasPair(c) == Truthy(MarketKeyOf(c)) /\ Len(CleanContractCode(c.contract_code)) > 0
EnabledPairs(cs) == {PairOf(cs[i]) : i \in {j \in 1..Len(cs) : cs[j].enabled = "True" /\ HasPair(cs[j])}}
EntryPairs(ms) == {<<ms[i].market_key, ms[i].contract_code>> : i \in 1..Len(ms)}

\* C24: after sync_markets_from_contracts_meta, the markets list of
\* markets.yaml contains exactly one entry for each distinct (market key,
\* normalized contract code) among the contracts whose enabled flag is true
\* and no entry for any contract that is not enabled; the source block that
\* markets.yaml had before the sync is unchanged; running the sync again
\* without changing contracts_meta.yaml leaves markets.yaml unchanged.
C24_OneEntryPerEnabledPair ==
    /\ []((syncs >= 1 /\ ~IsNone(contractsMeta)) =>
            /\ EntryPairs(marketsYaml.markets) = EnabledPairs(contractsMeta.contracts)
            /\ Len(marketsYaml.markets) = Cardinality(EnabledPairs(contractsMeta.contracts)))
    /\ [][(~IsNone(contractsMeta) /\ ~IsNone(marketsYaml) /\ marketsYaml.source # "null")
            => marketsYaml'.source = marketsYaml.source]_vars
    /\ [][syncs >= 1 => marketsYaml' = marketsYaml]_vars

(***************************************************************************)
(* src/app/auth.py: browser sessions registering, signing in and loading   *)
(* a page (require_authentication), an administrator saving a user's role  *)
(* and status, and the environment: a Google sign-in completing, a page     *)
(* reload (st.session_state is lost, the URL stays), a link with a token    *)
(* being opened, a session row expiring.                                    *)
(***************************************************************************)
MaxBrowsers == 1
Browsers == 1..MaxBrowsers

GoodPassword == "StrongPass_123!"

World(s) == [users |-> users, tokens |-> sessions, b |-> browser[s]]

Called(op, s, email, password, a) ==
    /\ users' = a.w.users
    /\ sessions' = a.w.tokens
    /\ browser' = [browser EXCEPT ![s] = a.w.b]
    /\ authResult' = [tick |-> 1 - authResult.tick, op |-> op, s |-> s, email |-> email,
                      password |-> password, ok |-> a.ok, msg |-> a.msg]

OthersUnchanged ==
    UNCHANGED <<adminEmail, radarIn, radar, syncVars, canonical, builderVars, pipelineVars,
                computeVars>>

AuthInit ==
    /\ PipelineAtRest /\ ComputeAtRest /\ BuildersAtRest
    /\ canonical = None
    /\ radarIn = None /\ radar = None /\ SyncAtRest
    /\ adminEmail = Owner   \* ADMIN_EMAIL is configured; Member is any other email
    /\ users = [e \in Emails |-> None]
    /\ sessions = [t \in Tokens |-> None]
    /\ browser = [s \in Browsers |-> NoBrowser]
    /\ authResult = [tick |-> 0, op |-> "none", s |-> 0, email |-> "", password |-> "",
                     ok |-> FALSE, msg |-> ""]

CallRegisterLocal(s, email, password) ==
    /\ Called("register", s, email, password,
              RegisterLocal(World(s), adminEmail, email, password))
    /\ OthersUnchanged

CallAuthenticateLocal(s, email, password) ==
    /\ Called("authenticate", s, email, password,
              AuthenticateLocal(World(s), adminEmail, email, password))
    /\ OthersUnchanged

CallRequireAuthentication(s) ==
    /\ Called("require", s, browser[s].email, "", RequireAuthentication(World(s), adminEmail))
    /\ OthersUnchanged

\* _render_user_management: "Save user"
SaveUser(email, role, status) ==
    /\ ~IsNone(users[email])
    /\ users' = UpdateUserRoleStatus(users, adminEmail, email, role, status)
    /\ authResult' = [tick |-> 1 - authResult.tick, op |-> "update", s |-> 0, email |-> email,
                      password |-> "", ok |-> users' # users, msg |-> ""]
    /\ UNCHANGED <<sessions, browser>>
    /\ OthersUnchanged

\* render_auth_sidebar: "Log out"
LogOut(s) ==
    /\ browser[s].email # ""
    /\ sessions' = RevokeSessionToken(sessions, browser[s].token)
    /\ browser' = [browser EXCEPT ![s] =
                      [NoBrowser EXCEPT !.google = IF browser[s].method = "google" THEN ""
                                                   ELSE browser[s].google]]
    /\ UNCHANGED <<users, authResult>>
    /\ OthersUnchanged

\* st.login("google") completed: st.user carries the email
GoogleLogin(s, email) ==
    /\ browser[s].google = ""
    /\ browser' = [browser EXCEPT ![s].google = email]
    /\ UNCHANGED <<users, sessions, authResult>>
    /\ OthersUnchanged

\* the page is reloaded: a new st.session_state, the same URL
Reload(s) ==
    /\ browser[s].email # ""
    /\ browser' = [browser EXCEPT ![s] = [NoBrowser EXCEPT !.query = browser[s].query,
                                                            !.google = browser[s].google]]
    /\ UNCHANGED <<users, sessions, authResult>>
    /\ OthersUnchanged

\* a link carrying an issued token is opened in a session that is not signed in
OpenLink(s, t) ==
    /\ browser[s].email = "" /\ browser[s].query # t
    /\ ~IsNone(sessions[t])
    /\ browser' = [browser EXCEPT ![s].query = t]
    /\ UNCHANGED <<users, sessions, authResult>>
    /\ OthersUnchanged

\* expires_at_utc of a session row has passed
TokenExpires(t) ==
    /\ ~IsNone(sessions[t]) /\ ~sessions[t].expired
    /\ sessions' = [sessions EXCEPT ![t].expired = TRUE]
    /\ UNCHANGED <<users, browser, authResult>>
    /\ OthersUnchanged

AuthNext ==
    \/ \E s \in Browsers, e \in Emails, p \in {GoodPassword, "short"} :
          CallRegisterLocal(s, e, p)
    \/ \E s \in Browsers, e \in Emails, p \in {GoodPassword, "wrong-pass"} :
          CallAuthenticateLocal(s, e, p)
    \/ \E s \in Browsers : CallRequireAuthentication(s)
    \/ \E e \in Emails, r \in {"user", "admin"}, st \in {"pending", "active", "disabled"} :
          SaveUser(e, r, st)
    \/ \E s \in Browsers : LogOut(s)
    \/ \E s \in Browsers, e \in Emails : GoogleLogin(s, e)
    \/ \E s \in Browsers : Reload(s)
    \/ \E s \in Browsers, t \in Tokens : OpenLink(s, t)
    \/ \E t \in Tokens : TokenExpires(t)

SpecAuth == AuthInit /\ [][AuthNext]_vars

(***************************************************************************)
(* Properties of src/app/auth.py.  authResult is the last call: a step     *)
(* that changes it is that call, seen with the tables before (unprimed)    *)
(* and after (primed).                                                     *)
(***************************************************************************)
IsCall(op) == authResult' # authResult /\ authResult'.op = op

\* the row of the call's email exists before the call and the password given
\* is the one stored for it
CorrectPassword ==
    /\ ~IsNone(users[authResult'.email])
    /\ VerifyPassword(authResult'.password, users[authResult'.email].hash)

RegisteredPending ==
    (IsCall("register") /\ authResult'.ok /\ authResult'.email # adminEmail)
        => users'[authResult'.email].status = "pending"

SuccessNeedsActive ==
    (IsCall("authenticate") /\ authResult'.ok)
        => /\ VerifyPassword(authResult'.password, users'[authResult'.email].hash)
           /\ users'[authResult'.email].status = "active"

\* C23 as stated: a successful register_local for a non-admin email stores
\* status pending; every authenticate_local call with the correct password
\* fails with the 'pending' message for as long as the stored status is not
\* active; authenticate_local succeeds only when the password verifies and the
\* stored status is active.
C23_PendingMessageWhileNotActive ==
    [][/\ RegisteredPending
       /\ (IsCall("authenticate") /\ authResult'.email # adminEmail /\ CorrectPassword
              /\ users[authResult'.email].status # "active")
            => (~authResult'.ok /\ authResult'.msg = "Account is pending approval.")
       /\ SuccessNeedsActive]_vars

\* C23, amended: a successful register_local for a non-admin email stores
\* status pending; every authenticate_local call with the correct password
\* fails for as long as the stored status is not active, with the 'pending
\* approval' message while the status is pending and the account's provider is
\* local; authenticate_local succeeds only when the password verifies and the
\* stored status is active.
C23_BlockedWhileNotActive ==
    [][/\ RegisteredPending
       /\ (IsCall("authenticate") /\ authResult'.email # adminEmail /\ CorrectPassword
              /\ users[authResult'.email].status # "active")
            => /\ ~authResult'.ok
               /\ (users[authResult'.email].status = "pending"
                      /\ users[authResult'.email].provider = "local")
                    => authResult'.msg = "Account is pending approval."
       /\ SuccessNeedsActive]_vars

C23_Witness ==
    /\ authResult.op = "authenticate" /\ authResult.email = Member
    /\ authResult.password = GoodPassword
    /\ ~authResult.ok /\ authResult.msg = "Account is pending approval."
    /\ users[Member].status = "pending" /\ users[Member].hash = GoodPassword

RoleAndStatus(row) == IF IsNone(row) THEN None ELSE <<row.role, row.status>>

\* C29: an authenticate_local call that returns failure leaves every stored
\* user's role and status unchanged, the configured admin email included.
C29_FailedLoginChangesNoUser ==
    [][(IsCall("authenticate") /\ ~authResult'.ok)
         => \A e \in Emails : RoleAndStatus(users'[e]) = RoleAndStatus(users[e])]_vars

LoggedIn(s) == browser[s].email # ""

UserIsActive(us, email) == ~IsNone(us[email]) /\ us[email].status = "active"

\* require_authentication returns True only for an existing, active user
TrueOnlyIfActive ==
    (IsCall("require") /\ authResult'.ok)
        => /\ browser'[authResult'.s].email # ""
           /\ UserIsActive(users', browser'[authResult'.s].email)

\* the call of a logged-in session whose user is not active (any more)
Locked(s) ==
    /\ ~authResult'.ok
    /\ browser[s].token # 0 => sessions'[browser[s].token].revoked
    /\ browser'[s].email = "" /\ browser'[s].token = 0 /\ browser'[s].method = ""

LockedOutWhenNotActive ==
    \A s \in Browsers :
        (IsCall("require") /\ authResult'.s = s /\ LoggedIn(s)
            /\ ~UserIsActive(users, browser[s].email)) => Locked(s)

\* a revoked token stays revoked and restores no session
RevokedStaysOut ==
    \A t \in Tokens :
        (~IsNone(sessions[t]) /\ sessions[t].revoked)
            => /\ sessions'[t].revoked
               /\ \A s \in Browsers :
                     (~LoggedIn(s) /\ browser'[s].email # "") => browser'[s].token # t

\* C30: require_authentication returns True only if the session's user exists
\* with status active; once a logged-in user's status is pending or disabled,
\* that user's next require_authentication call returns False, revokes the
\* session's token and clears the session's auth state; a revoked token never
\* restores an authenticated session.
C30_OnlyActiveUsersPass ==
    [][TrueOnlyIfActive /\ LockedOutWhenNotActive /\ RevokedStaysOut]_vars

\* the same for sessions that are not signed in with Google
C30_WithoutGoogle ==
    [][(\A s \in Browsers : browser[s].google = "")
          => (TrueOnlyIfActive /\ LockedOutWhenNotActive /\ RevokedStaysOut)]_vars

(***************************************************************************)
(* scripts/run_pipeline.py and the dashboard's "Run compute" button.       *)
(* An invocation blocks in subprocess.run while a step runs; everything    *)
(* else it does between two steps is one action.                           *)
(***************************************************************************)
steps == <<"ingest", "normalize", "compute">>

\* exit codes a step's subprocess may end with
StepCodes == {0, 1}

RcRefused == 2
RcLocked == 3

\* the lock file after an invocation left _pipeline_lock, had the unlink been
\* placed after the loop instead of in a finally clause
LockAfterExitNoFinally(lock, code) == IF code = 0 THEN NoLock ELSE lock

\* finally: lock_path.unlink(missing_ok=True), whatever the exit code
LockAfterExit(lock, code) == NoLock

\* os.open without O_EXCL: an existing lock file is opened, not refused (slip)
LockExistsNoExcl(lock) == FALSE

\* os.open(lock_path, O_CREAT | O_EXCL | O_WRONLY) raises FileExistsError
LockExists(lock) == lock # NoLock

\* the loop over the steps going on after a failed step (slip)
LoopEndsAfterLastOnly(code, idx) == idx = Len(steps)

\* the loop over the steps ends: return on a non-zero returncode, or after the
\* last step
LoopEnds(code, idx) == code # 0 \/ idx = Len(steps)

\* main(): parse the arguments, take the lock, start the first step
InvokeRunPipeline(p, yes) ==
    /\ pc[p] = "idle"
    /\ kind' = [kind EXCEPT ![p] = "cli"]
    /\ IF ~yes
       THEN /\ rc' = [rc EXCEPT ![p] = RcRefused]
            /\ pc' = [pc EXCEPT ![p] = "done"]
            /\ UNCHANGED <<lockFile, stepIdx, acquired, ran>>
       ELSE IF LockExists(lockFile)  \* os.open(O_CREAT | O_EXCL): FileExistsError
       THEN /\ rc' = [rc EXCEPT ![p] = RcLocked]
            /\ pc' = [pc EXCEPT ![p] = "done"]
            /\ UNCHANGED <<lockFile, stepIdx, acquired, ran>>
       ELSE /\ lockFile' = p
            /\ acquired' = [acquired EXCEPT ![p] = TRUE]
            /\ pc' = [pc EXCEPT ![p] = "step"]
            /\ stepIdx' = [stepIdx EXCEPT ![p] = 1]
            /\ ran' = [ran EXCEPT ![p] = <<steps[1]>>]
            /\ UNCHANGED rc
    /\ UNCHANGED <<exits, computeVars, canonical, builderVars, appVars>>

\* render(): the "Run compute" button was pressed; start the first step
ClickRunCompute(p) ==
    /\ pc[p] = "idle"
    /\ kind' = [kind EXCEPT ![p] = "dash"]
    /\ pc' = [pc EXCEPT ![p] = "step"]
    /\ stepIdx' = [stepIdx EXCEPT ![p] = 1]
    /\ ran' = [ran EXCEPT ![p] = <<steps[1]>>]
    /\ UNCHANGED <<lockFile, rc, acquired, exits, computeVars, canonical, builderVars, appVars>>

\* subprocess.run returned `code`: stop on a failure or after the last step,
\* else start the next step
StepExit(p, code) ==
    /\ pc[p] = "step"
    /\ exits' = [exits EXCEPT ![p] = Append(exits[p], code)]
    /\ IF LoopEnds(code, stepIdx[p])
       THEN /\ pc' = [pc EXCEPT ![p] = "done"]
            /\ rc' = [rc EXCEPT ![p] = code]
            /\ lockFile' = IF kind[p] = "cli" THEN LockAfterExit(lockFile, code) ELSE lockFile
            /\ UNCHANGED <<stepIdx, ran>>
       ELSE /\ stepIdx' = [stepIdx EXCEPT ![p] = stepIdx[p] + 1]
            /\ ran' = [ran EXCEPT ![p] = Append(ran[p], steps[stepIdx[p] + 1])]
            /\ UNCHANGED <<pc, rc, lockFile>>
    /\ UNCHANGED <<kind, acquired, computeVars, canonical, builderVars, appVars>>

PipelineInit ==
    /\ PipelineAtRest
    /\ ComputeAtRest
    /\ BuildersAtRest
    /\ AppAtRest
    /\ canonical = None

PipelineNext ==
    \/ \E p \in Invocations, yes \in BOOLEAN : InvokeRunPipeline(p, yes)
    \/ \E p \in Invocations : ClickRunCompute(p)
    \/ \E p \in Invocations, code \in StepCodes : StepExit(p, code)

SpecPipeline == PipelineInit /\ [][PipelineNext]_vars

\* invocations with a step sequence in progress
Running == {p \in Invocations : pc[p] = "step"}

\* C1: at most one pipeline run (the ingest -> normalize -> compute sequence)
\* is executing at any time, whichever entry point started it.
C1_AtMostOneRun == Cardinality(Running) <= 1

\* C2: after an invocation that acquired the lock has terminated, with exit
\* code 0 or not, the lock file it created is gone: the lock file exists only
\* while its creator is still running its steps.
C2_LockReleased ==
    /\ \A p \in Invocations : (pc[p] = "done" /\ acquired[p]) => lockFile # p
    /\ lockFile # NoLock => (pc[lockFile] = "step" /\ acquired[lockFile])

\* an invocation failed at a step after taking the lock, and a later one
\* holds the lock and runs
C2_Witness ==
    \E p, q \in Invocations :
        /\ pc[p] = "done" /\ acquired[p] /\ rc[p] = 1
        /\ pc[q] = "step" /\ lockFile = q

\* C25: a run_pipeline invocation that holds the lock runs the steps in the
\* order ingest, normalize, compute, starts a step only after the previous
\* step's subprocess has exited with code 0, never runs a step twice, and on
\* the first non-zero exit runs no later step and returns that step's exit
\* code; it returns 0 only if all three steps exited 0, and an invocation
\* without --yes returns 2 without taking the lock or running any step.
C25_StepsInOrderUntilFailure ==
    \A p \in Invocations :
        (kind[p] = "cli" /\ pc[p] # "idle") =>
            LET order == <<"ingest", "normalize", "compute">>
                n == Len(ran[p])
            IN  /\ n <= 3 /\ ran[p] = SubSeq(order, 1, n)
                /\ n > 0 => acquired[p]
                /\ pc[p] = "step" => (lockFile = p /\ n > 0 /\ Len(exits[p]) = n - 1)
                /\ pc[p] = "done" => Len(exits[p]) = n
                /\ \A i \in 1..(n - 1) : exits[p][i] = 0
                /\ (pc[p] = "done" /\ n > 0) => rc[p] = exits[p][n]
                /\ rc[p] = 0 => (ran[p] = order /\ exits[p] = <<0, 0, 0>>)
                /\ rc[p] = RcRefused => (~acquired[p] /\ n = 0 /\ lockFile # p)

\* ingest exited 0, normalize exited 1: compute was never started and the
\* invocation returned 1
C25_Witness ==
    \E p \in Invocations :
        /\ kind[p] = "cli" /\ pc[p] = "done" /\ acquired[p]
        /\ ran[p] = <<"ingest", "normalize">>
        /\ exits[p] = <<0, 1>>
        /\ rc[p] = 1

\* the CLI invocations between lock acquisition and lock release
Holders == {p \in Invocations : kind[p] = "cli" /\ acquired[p] /\ pc[p] = "step"}

\* C26: for any number of concurrent scripts/run_pipeline.py invocations and
\* any interleaving, at most one of them is between lock acquisition and
\* lock release at a time; every invocation that finds the lock file present
\* returns exit code 3 without running any step and without deleting or
\* altering the holder's lock file.
C26_OneHolderOthersRefused ==
    /\ [](Cardinality(Holders) <= 1)
    /\ [](\A p \in Invocations : rc[p] = RcLocked => (~acquired[p] /\ ran[p] = <<>>))
    /\ [][\A p \in Invocations :
            (pc[p] = "idle" /\ pc'[p] # "idle" /\ kind'[p] = "cli"
             /\ lockFile # NoLock /\ rc'[p] # RcRefused) =>
                /\ pc'[p] = "done" /\ rc'[p] = RcLocked
                /\ ran'[p] = <<>>
                /\ lockFile' = lockFile]_vars

\* one invocation holds the lock and runs a step, two others were turned
\* away with code 3
C26_Witness ==
    \E p, q, r \in Invocations :
        /\ q # r
        /\ kind[p] = "cli" /\ pc[p] = "step" /\ lockFile = p
        /\ kind[q] = "cli" /\ pc[q] = "done" /\ rc[q] = RcLocked
        /\ kind[r] = "cli" /\ pc[r] = "done" /\ rc[r] = RcLocked

(***************************************************************************)
(* src/compute/run_compute.py: main().  One action per stretch of main()   *)
(* that ends with a file written or with the process exiting.              *)
(***************************************************************************)
MaxRuns == 2

\* canonical tables a run may find: two weeks of one market
ComputeInputs ==
    {Table(CanonCols, <<Row("EUR", 1, v1), Row("EUR", 2, v2)>>) : v1, v2 \in CanonRowVals}

\* what the checks of src.compute.validations may report for a metrics table:
\* no error, or some error
ValidationOutcomes == BOOLEAN

Wrote(f) == [files EXCEPT ![f] = runId]

\* the keys of a semantic table whose builder sorts positions and keeps its keys
KeyedLike(pos, col) == JoinTable([i \in 1..Len(pos.rows) |-> KeyOf(pos.rows[i])], {col})

\* the arguments main() passes to build_wide_metrics
MetricsArgs ==
    [positions |-> positions, changes |-> changes, flows |-> flows,
     rolling  |-> KeyedLike(positions, JoinColNames[4]),
     extremes |-> KeyedLike(positions, JoinColNames[5]),
     moves    |-> KeyedLike(positions, JoinColNames[6]),
     canonical |-> canonical]

\* (metrics[x] == metrics[y]).fillna(False) on one row
SameCell(a, b) == IsNum(a) /\ IsNum(b) /\ a.v = b.v

\* the guard firing as soon as half of the rows are the same (slip)
MappingBugHalf(metrics) ==
    LET n == Len(metrics.rows)
        same_all == {i \in 1..n :
                        /\ SameCell(metrics.rows[i].c["nc_long"], metrics.rows[i].c["comm_long"])
                        /\ SameCell(metrics.rows[i].c["nc_short"], metrics.rows[i].c["comm_short"])
                        /\ SameCell(metrics.rows[i].c["nc_net"], metrics.rows[i].c["comm_net"])}
    IN  n > 0 /\ Cardinality(same_all) * 2 >= n

\* same_pct > 0.999: nc_* equals comm_* on more than 99.9% of the rows
MappingBug(metrics) ==
    LET n == Len(metrics.rows)
        same_all == {i \in 1..n :
                        /\ SameCell(metrics.rows[i].c["nc_long"], metrics.rows[i].c["comm_long"])
                        /\ SameCell(metrics.rows[i].c["nc_short"], metrics.rows[i].c["comm_short"])
                        /\ SameCell(metrics.rows[i].c["nc_net"], metrics.rows[i].c["comm_net"])}
    IN  n > 0 /\ Cardinality(same_all) * 1000 > 999 * n

\* a new process: read and check canonical, build positions, write them
StartRun(c) ==
    /\ cpc \in {"idle", "done", "aborted"}
    /\ runId < MaxRuns
    /\ runId' = runId + 1
    /\ canonical' = c
    /\ validationErrors' = FALSE
    /\ changes' = None /\ flows' = None /\ wide' = None
    /\ IF Len(c.rows) = 0 \/ Duplicated(c.rows) > 0
       THEN /\ cpc' = "aborted"
            /\ positions' = None
            /\ UNCHANGED files
       ELSE /\ positions' = build_positions(c)
            /\ files' = [files EXCEPT !["positions_weekly"] = runId + 1]
            /\ cpc' = "positions"
    /\ UNCHANGED <<derivedVars, stage, joinIn, pipelineVars, appVars>>

WriteChanges ==
    /\ cpc = "positions"
    /\ changes' = build_changes(positions)
    /\ files' = Wrote("changes_weekly")
    /\ cpc' = "changes"
    /\ UNCHANGED <<derivedVars, runId, canonical, validationErrors, positions, flows, wide,
                   stage, joinIn, pipelineVars, appVars>>

WriteFlows ==
    /\ cpc = "changes"
    /\ flows' = build_flows_weekly(changes)
    /\ files' = Wrote("flows_weekly")
    /\ cpc' = "flows"
    /\ UNCHANGED <<derivedVars, runId, canonical, validationErrors, positions, changes, wide,
                   stage, joinIn, pipelineVars, appVars>>

\* build_rolling(positions), written
WriteRolling ==
    /\ cpc = "flows"
    /\ files' = Wrote("rolling_weekly")
    /\ cpc' = "rolling"
    /\ UNCHANGED <<runId, canonical, validationErrors, builderVars, pipelineVars, appVars>>

\* build_extremes(positions), written
WriteExtremes ==
    /\ cpc = "rolling"
    /\ files' = Wrote("extremes_weekly")
    /\ cpc' = "extremes"
    /\ UNCHANGED <<runId, canonical, validationErrors, builderVars, pipelineVars, appVars>>

\* build_moves_weekly(changes), written
WriteMoves ==
    /\ cpc = "extremes"
    /\ files' = Wrote("moves_weekly")
    /\ cpc' = "moves"
    /\ UNCHANGED <<runId, canonical, validationErrors, builderVars, pipelineVars, appVars>>

\* build the wide table, validate it, write the QA report, and either exit
\* on the errors or write metrics_weekly
BuildMetrics(v) ==
    /\ cpc = "moves"
    /\ LET metrics == build_wide_metrics(MetricsArgs)
       IN  /\ wide' = metrics
           /\ IF metrics.status = "raised"
              THEN /\ cpc' = "aborted"
                   /\ validationErrors' = FALSE
                   /\ UNCHANGED files
              ELSE /\ validationErrors' = v
                   /\ IF v \/ Len(metrics.rows) # Len(positions.rows) \/ MappingBug(metrics)
                      THEN cpc' = "aborted" /\ UNCHANGED files
                      ELSE cpc' = "metrics" /\ files' = Wrote("metrics_weekly")
    /\ UNCHANGED <<derivedVars, runId, canonical, positions, changes, flows, stage, joinIn, pipelineVars, appVars>>

\* build_market_radar_latest(metrics), written
WriteRadar ==
    /\ cpc = "metrics"
    /\ files' = Wrote("market_radar_latest")
    /\ cpc' = "radar"
    /\ UNCHANGED <<runId, canonical, validationErrors, builderVars, pipelineVars, appVars>>

\* build_market_positioning_latest(metrics), written; main() returns
WritePositioning ==
    /\ cpc = "radar"
    /\ files' = Wrote("market_positioning_latest")
    /\ cpc' = "done"
    /\ UNCHANGED <<runId, canonical, validationErrors, builderVars, pipelineVars, appVars>>

ComputeInit ==
    /\ PipelineAtRest
    /\ ComputeAtRest
    /\ BuildersAtRest
    /\ AppAtRest
    /\ canonical = None

ComputeNext ==
    \/ \E c \in ComputeInputs : StartRun(c)
    \/ WriteChanges
    \/ WriteFlows
    \/ WriteRolling
    \/ WriteExtremes
    \/ WriteMoves
    \/ \E v \in ValidationOutcomes : BuildMetrics(v)
    \/ WriteRadar
    \/ WritePositioning

SpecCompute == ComputeInit /\ [][ComputeNext]_vars

\* C3: a compute run that aborts with a fatal error has written none of the
\* output tables.
C3_AbortWritesNothing ==
    cpc = "aborted" => \A f \in OutputFileSet : files[f] # runId

\* C4: at every instant all the output files come from the same compute run,
\* so that a reader loading any two of them never sees a mix of two runs.
C4_FilesFromOneRun ==
    \A f, g \in OutputFileSet : files[f] = files[g]

\* the rows of a metrics table on which nc_* and comm_* long, short and net
\* hold the same numbers
IdenticalRows(t) ==
    {i \in 1..Len(t.rows) :
        \A f \in {"long", "short", "net"} :
            LET a == t.rows[i].c[Col("nc", f)]
                b == t.rows[i].c[Col("comm", f)]
            IN  IsNum(a) /\ IsNum(b) /\ a.v = b.v}

====
